---- MODULE Spec2Model ----
(***************************************************************************)
(* Model of the agent workflow of packages/ai: the routing function        *)
(* shouldContinue, the tools / llm / parse nodes, the compiled graph       *)
(* executed by AgentWorkflow.run and the retry loop of                     *)
(* AgentWorkflow.runWithRetries.                                           *)
(*                                                                         *)
(* Text is modelled as a sequence of tokens (a token is a character or a   *)
(* literal chunk of the source); the token " " is white space.             *)
(***************************************************************************)
EXTENDS Integers, Sequences, FiniteSets, TLC

(***************************************************************************)
(* Bounds of the model                                                     *)
(***************************************************************************)
\* longest list of tool-call requests carried by one ai message
MaxCalls == 2
\* largest retry budget passed to runWithRetries
MaxRetries == 2
\* longest list of system instructions, of described tools and of context
\* messages an agent is given
MaxListed == 2

(***************************************************************************)
(* Text helpers                                                            *)
(***************************************************************************)
IsWhite(tok) == tok = " " \/ tok = "\n"

RECURSIVE TrimStart(_)
TrimStart(s) ==
  IF s # <<>> /\ IsWhite(Head(s)) THEN TrimStart(Tail(s)) ELSE s

RECURSIVE TrimEnd(_)
TrimEnd(s) ==
  IF s # <<>> /\ IsWhite(s[Len(s)]) THEN TrimEnd(SubSeq(s, 1, Len(s) - 1)) ELSE s

\* String.prototype.trim
Trim(s) == TrimEnd(TrimStart(s))

\* String.prototype.includes: sub occurs in s as a contiguous run of tokens
Includes(s, sub) ==
  \E i \in 0..(Len(s) - Len(sub)) : SubSeq(s, i + 1, i + Len(sub)) = sub

(***************************************************************************)
(* Node names (agent-workflow.ts)                                          *)
(***************************************************************************)
START_NODE == "__start__"
END_NODE == "__end__"
LLM_NODE == "__llm__"
LLM_WITH_TOOLS_NODE == "__llm_with_tools__"
TOOLS_NODE == "__tools__"
PARSE_NODE == "__parse__"

(***************************************************************************)
(* JSON values and message content                                         *)
(***************************************************************************)
JNull == [t |-> "null", n |-> 0, s |-> <<>>, b |-> FALSE, o |-> <<>>]
JNum(k) == [t |-> "num", n |-> k, s |-> <<>>, b |-> FALSE, o |-> <<>>]
JStr(str) == [t |-> "str", n |-> 0, s |-> str, b |-> FALSE, o |-> <<>>]
JBool(v) == [t |-> "bool", n |-> 0, s |-> <<>>, b |-> v, o |-> <<>>]
\* an object is its list of members, [k |-> key, v |-> value]
JObj(members) == [t |-> "obj", n |-> 0, s |-> <<>>, b |-> FALSE, o |-> members]

\* MessageContent: a string, or structured content
TextContent(s) == [isText |-> TRUE, text |-> s, val |-> JNull]
StructuredContent(v) == [isText |-> FALSE, text |-> <<>>, val |-> v]

(***************************************************************************)
(* Messages (the @langchain/core message classes as one tagged record).    *)
(* id is the message id used by messagesStateReducer, 0 when not set.      *)
(***************************************************************************)
NoId == 0

ToolCall(nm, ar, cid) == [name |-> nm, args |-> ar, id |-> cid]

SystemMessage(c) ==
  [role |-> "system", content |-> c, tool_calls |-> <<>>,
   tool_call_id |-> "", name |-> <<>>, id |-> NoId]

HumanMessage(c) ==
  [role |-> "human", content |-> c, tool_calls |-> <<>>,
   tool_call_id |-> "", name |-> <<>>, id |-> NoId]

AIMessage(c, calls) ==
  [role |-> "ai", content |-> c, tool_calls |-> calls,
   tool_call_id |-> "", name |-> <<>>, id |-> NoId]

ToolMessage(cid, nm, c) ==
  [role |-> "tool", content |-> c, tool_calls |-> <<>>,
   tool_call_id |-> cid, name |-> nm, id |-> NoId]

\* lastMessage instanceof AIMessage, for state.messages[state.messages.length - 1]
\* (undefined when the array is empty)
LastIsAI(msgs) == msgs # <<>> /\ msgs[Len(msgs)].role = "ai"

(***************************************************************************)
(* shouldContinue: the conditional edge after LLM_WITH_TOOLS               *)
(***************************************************************************)
\* call && typeof call.name === 'string' && call.name.trim() !== ''
\* (the requests of the model are ToolCall objects, whose name is a string)
ValidCall(call) == Trim(call.name) # <<>>

\* shouldContinue testing the first request only
shouldContinueFirstCall(msgs) ==
  IF ~LastIsAI(msgs)
    THEN PARSE_NODE
    ELSE LET calls == msgs[Len(msgs)].tool_calls
         IN IF Len(calls) > 0 /\ ValidCall(calls[1]) THEN TOOLS_NODE ELSE PARSE_NODE

\* shouldContinue without the test of the names
shouldContinueAnyCall(msgs) ==
  IF LastIsAI(msgs) /\ Len(msgs[Len(msgs)].tool_calls) > 0 THEN TOOLS_NODE ELSE PARSE_NODE

shouldContinue(msgs) ==
  IF ~LastIsAI(msgs)
    THEN PARSE_NODE
    ELSE LET calls == msgs[Len(msgs)].tool_calls
             hasValidToolCalls ==
               /\ Len(calls) > 0
               /\ \E i \in 1..Len(calls) : ValidCall(calls[i])
         IN IF hasValidToolCalls THEN TOOLS_NODE ELSE PARSE_NODE

(***************************************************************************)
(* State                                                                   *)
(***************************************************************************)
VARIABLES
  tools,            \* options.tools: the registered tools, in order
  schema,           \* options.responseFormat
  options,          \* the other options given to the AIAgent constructor
  userInput,        \* AIAgent.run argument input: the message of the caller
  context,          \* AIAgent.run argument: the context messages
  messages,         \* state.messages of the run in progress
  result,           \* state.result: [set |-> written or not, val |-> value]
  nextId,           \* source of the fresh ids messagesStateReducer assigns
  pc,               \* node about to execute ("route": the conditional edge)
  path,             \* nodes executed so far in this run
  updatedMessages,  \* tools node: its local copy of state.messages
  tcIdx,            \* tools node: request being processed, 0 outside the loop
  invoked,          \* tool invocations made so far, in order
  ret,              \* value returned by the node that ran last
  modelCalls,       \* message sequences handed to model.invoke, in order
  runOutcome,       \* how run() settled
  maxRetries,       \* runWithRetries argument
  baseDelay,        \* runWithRetries argument
  attempt,          \* runWithRetries loop variable
  lastError,        \* runWithRetries local
  rpc,              \* position inside runWithRetries
  waits,            \* delays slept so far, in order
  calls,            \* number of invocations of run so far
  runLog,           \* how each invocation of run settled, in order
  settled,          \* how runWithRetries settled
  active,           \* the call of AIAgent.run whose step comes next
  suspended,        \* the state of the other call of AIAgent.run, if any
  files,            \* FsCacheAdapter: the files of this.directory, by name
  now,              \* Date.now()
  got,              \* how the last call on the adapter settled
  lastSet           \* per key, the last set that resolved and what followed it

\* what no node and no step of the retry loop writes
cacheVars == <<files, now, got, lastSet>>
cfgVars ==
  <<tools, schema, options, userInput, context, active, suspended, cacheVars>>
stateVars == <<messages, result, nextId>>
toolVars == <<updatedMessages, tcIdx, invoked>>
runVars == <<pc, path, ret, modelCalls, runOutcome>>
retryVars ==
  <<maxRetries, baseDelay, attempt, lastError, rpc, waits, calls, runLog, settled>>
vars == <<cfgVars, stateVars, toolVars, runVars, retryVars>>
\* what no call on the cache adapter writes
agentVars ==
  <<tools, schema, options, userInput, context, active, suspended,
    stateVars, toolVars, runVars, retryVars>>

(***************************************************************************)
(* messagesStateReducer, the reducer of the messages channel               *)
(***************************************************************************)
\* messages without an id receive a fresh one (uuid), in order
RECURSIVE AssignIds(_, _)
AssignIds(msgs, next) ==
  IF msgs = <<>> THEN <<>>
  ELSE IF Head(msgs).id = NoId
    THEN <<[Head(msgs) EXCEPT !.id = next]>> \o AssignIds(Tail(msgs), next + 1)
    ELSE <<Head(msgs)>> \o AssignIds(Tail(msgs), next)

RECURSIVE CountNoId(_)
CountNoId(msgs) ==
  IF msgs = <<>> THEN 0
  ELSE (IF Head(msgs).id = NoId THEN 1 ELSE 0) + CountNoId(Tail(msgs))

\* a message whose id is already present replaces that message in place,
\* any other message is appended
RECURSIVE MergeById(_, _)
MergeById(merged, right) ==
  IF right = <<>> THEN merged
  ELSE LET m == Head(right)
           hits == {i \in 1..Len(merged) : merged[i].id = m.id}
       IN IF hits # {}
            THEN LET idx == CHOOSE i \in hits : \A j \in hits : j <= i
                 IN MergeById([merged EXCEPT ![idx] = m], Tail(right))
            ELSE MergeById(Append(merged, m), Tail(right))

messagesStateReducer(left, right, next) ==
  MergeById(left, AssignIds(right, next))

(***************************************************************************)
(* createToolsNode                                                         *)
(***************************************************************************)
Tool(nm) == [name |-> nm]

UnknownToolName == <<"unknown-tool">>

\* const toolName = name || 'unknown-tool'
ToolNameOf(call) == IF call.name = <<>> THEN UnknownToolName ELSE call.name

\* toolsMap.get(toolName) is defined
ToolFound(toolName) == \E i \in 1..Len(tools) : tools[i].name = toolName

\* what tool.invoke(args) can do: return a string, return a structured value,
\* throw an Error, throw a value that is not an Error
ToolOutcomes ==
  { [kind |-> "return", content |-> TextContent(<<"Tool Result">>), msg |-> <<>>],
    [kind |-> "return", content |-> StructuredContent(JNum(7)), msg |-> <<>>],
    [kind |-> "throwError", content |-> TextContent(<<>>), msg |-> <<"Tool Error">>],
    [kind |-> "throwValue", content |-> TextContent(<<>>), msg |-> <<"String error">>] }

\* the ToolMessage pushed when toolsMap has no tool of that name
NotFoundMessage(toolCall, toolName) ==
  ToolMessage(toolCall.id, toolName,
              TextContent(<<"Error: Tool '">> \o toolName \o <<"' not found">>))

\* a result message that does not carry the identifier of the request
ResultMessageNoId(toolCall, toolName, outcome) ==
  ToolMessage("", toolName, outcome.content)

\* the ToolMessage pushed when tool.invoke returned
ResultMessage(toolCall, toolName, outcome) ==
  ToolMessage(toolCall.id, toolName, outcome.content)

\* an error message that leaves the reason out
ErrorMessageNoReason(toolCall, toolName, outcome) ==
  ToolMessage(toolCall.id, toolName, TextContent(<<"Error: ">>))

\* the ToolMessage pushed by the catch block:
\* `Error: ${error instanceof Error ? error.message : String(error)}`
ErrorMessage(toolCall, toolName, outcome) ==
  ToolMessage(toolCall.id, toolName, TextContent(<<"Error: ">> \o outcome.msg))

\* the guards of the two early returns
ToolsSkipNoTools == Len(tools) = 0

\* the second early return without its test of tool_calls
ToolsSkipNotAI == ~LastIsAI(messages)

ToolsSkipNoCalls ==
  ~LastIsAI(messages) \/ Len(messages[Len(messages)].tool_calls) = 0

\* the node returned; its update is merged and the edge TOOLS -> LLM is taken
ToolsFinish(returned) ==
  /\ ret' = returned
  /\ messages' = messagesStateReducer(messages, returned.messages, nextId)
  /\ nextId' = nextId + CountNoId(returned.messages)
  /\ pc' = LLM_NODE
  /\ path' = Append(path, TOOLS_NODE)

\* entry of the node up to the loop: the early returns, or the setup of the loop
ToolsEnter ==
  /\ pc = TOOLS_NODE
  /\ tcIdx = 0
  /\ IF ToolsSkipNoTools \/ ToolsSkipNoCalls
       THEN /\ ToolsFinish([kind |-> "state", messages |-> messages])
            /\ UNCHANGED <<updatedMessages, tcIdx>>
       ELSE /\ updatedMessages' = messages
            /\ tcIdx' = 1
            /\ UNCHANGED <<messages, nextId, pc, path, ret>>
  /\ UNCHANGED <<cfgVars, result, invoked, modelCalls, runOutcome, retryVars>>

\* the loop starting the invocation for the next request together with the
\* one for the current request
ToolsCallAll ==
  /\ pc = TOOLS_NODE
  /\ tcIdx >= 1
  /\ tcIdx <= Len(messages[Len(messages)].tool_calls)
  /\ \E outcome \in ToolOutcomes :
       LET cs == messages[Len(messages)].tool_calls
           last == IF tcIdx < Len(cs) THEN tcIdx + 1 ELSE tcIdx
           Inv(i) ==
             IF ToolFound(ToolNameOf(cs[i]))
               THEN <<[name |-> ToolNameOf(cs[i]), args |-> cs[i].args, id |-> cs[i].id,
                       at |-> i, threw |-> outcome.kind # "return",
                       reason |-> outcome.msg]>>
               ELSE <<>>
           Ans(i) ==
             IF ~ToolFound(ToolNameOf(cs[i])) THEN NotFoundMessage(cs[i], ToolNameOf(cs[i]))
             ELSE IF outcome.kind = "return"
               THEN ResultMessage(cs[i], ToolNameOf(cs[i]), outcome)
               ELSE ErrorMessage(cs[i], ToolNameOf(cs[i]), outcome)
       IN /\ invoked' = invoked \o Inv(tcIdx) \o (IF last > tcIdx THEN Inv(last) ELSE <<>>)
          /\ updatedMessages' =
               updatedMessages \o <<Ans(tcIdx)>>
                 \o (IF last > tcIdx THEN <<Ans(last)>> ELSE <<>>)
          /\ tcIdx' = last + 1
  /\ UNCHANGED <<cfgVars, stateVars, runVars, retryVars>>

\* one iteration of the loop over lastMessage.tool_calls
ToolsCall ==
  /\ pc = TOOLS_NODE
  /\ tcIdx >= 1
  /\ tcIdx <= Len(messages[Len(messages)].tool_calls)
  /\ LET toolCall == messages[Len(messages)].tool_calls[tcIdx]
         toolName == ToolNameOf(toolCall)
     IN IF ~ToolFound(toolName)
          THEN /\ updatedMessages' =
                    Append(updatedMessages, NotFoundMessage(toolCall, toolName))
               /\ UNCHANGED invoked
          ELSE \E outcome \in ToolOutcomes :
               /\ invoked' = Append(invoked, [name |-> toolName, args |-> toolCall.args,
                                              id |-> toolCall.id, at |-> tcIdx,
                                              threw |-> outcome.kind # "return",
                                              reason |-> outcome.msg])
               /\ updatedMessages' =
                    Append(updatedMessages,
                           IF outcome.kind = "return"
                             THEN ResultMessage(toolCall, toolName, outcome)
                             ELSE ErrorMessage(toolCall, toolName, outcome))
  /\ tcIdx' = tcIdx + 1
  /\ UNCHANGED <<cfgVars, stateVars, runVars, retryVars>>

\* the node returning the state it was given after the loop
ToolsReturnDropsMessages ==
  /\ pc = TOOLS_NODE
  /\ tcIdx >= 1
  /\ tcIdx > Len(messages[Len(messages)].tool_calls)
  /\ ToolsFinish([kind |-> "state", messages |-> messages])
  /\ tcIdx' = 0
  /\ updatedMessages' = <<>>
  /\ UNCHANGED <<cfgVars, result, invoked, modelCalls, runOutcome, retryVars>>

\* the loop is over: return { messages: updatedMessages }
ToolsReturn ==
  /\ pc = TOOLS_NODE
  /\ tcIdx >= 1
  /\ tcIdx > Len(messages[Len(messages)].tool_calls)
  /\ ToolsFinish([kind |-> "partial", messages |-> updatedMessages])
  /\ tcIdx' = 0
  /\ updatedMessages' = <<>>
  /\ UNCHANGED <<cfgVars, result, invoked, modelCalls, runOutcome, retryVars>>

ToolsNode == ToolsEnter \/ ToolsCall \/ ToolsReturn

(***************************************************************************)
(* JSON.parse and JSON.stringify on token sequences.  The lexemes are the  *)
(* tokens "{" "}" ":" "," "null" "true" "false", one token per digit, and  *)
(* a string literal is the token "\"" , the tokens of the string, "\"".    *)
(***************************************************************************)
Quote == "\""

DigitVal == [d \in {"0", "1", "7"} |-> CASE d = "0" -> 0 [] d = "1" -> 1 [] d = "7" -> 7]

DigitOf(k) == CHOOSE d \in DOMAIN DigitVal : DigitVal[d] = k

ParseFail == [ok |-> FALSE, val |-> JNull, rest |-> <<>>]

ParseOk(v, rest) == [ok |-> TRUE, val |-> v, rest |-> rest]

\* index of the first token equal to tok in s, 0 when there is none
IndexOf(s, tok) ==
  IF \E i \in 1..Len(s) : s[i] = tok
    THEN CHOOSE i \in 1..Len(s) : s[i] = tok /\ \A j \in 1..(i - 1) : s[j] # tok
    ELSE 0

\* obj[key] = v: an existing key keeps its place, a new key goes last
SetMember(members, key, v) ==
  IF \E i \in 1..Len(members) : members[i].k = key
    THEN [i \in 1..Len(members) |->
            IF members[i].k = key THEN [k |-> key, v |-> v] ELSE members[i]]
    ELSE Append(members, [k |-> key, v |-> v])

RECURSIVE ParseValue(_)
RECURSIVE ParseMembers(_, _)

\* a string literal at the head of toks
ParseString(toks) ==
  IF toks = <<>> \/ Head(toks) # Quote THEN ParseFail
  ELSE LET body == Tail(toks)
           close == IndexOf(body, Quote)
       IN IF close = 0 THEN ParseFail
          ELSE ParseOk(JStr(SubSeq(body, 1, close - 1)),
                       SubSeq(body, close + 1, Len(body)))

ParseValue(input) ==
  LET toks == TrimStart(input)
  IN IF toks = <<>> THEN ParseFail
     ELSE LET h == Head(toks)
              rest == Tail(toks)
          IN CASE h = "null" -> ParseOk(JNull, rest)
               [] h = "true" -> ParseOk(JBool(TRUE), rest)
               [] h = "false" -> ParseOk(JBool(FALSE), rest)
               [] h \in DOMAIN DigitVal -> ParseOk(JNum(DigitVal[h]), rest)
               [] h = Quote -> ParseString(toks)
               [] h = "{" ->
                    IF TrimStart(rest) # <<>> /\ Head(TrimStart(rest)) = "}"
                      THEN ParseOk(JObj(<<>>), Tail(TrimStart(rest)))
                      ELSE ParseMembers(rest, <<>>)
               [] OTHER -> ParseFail

\* the members of an object after "{" or ",", up to and including "}"
ParseMembers(input, acc) ==
  LET key == ParseString(TrimStart(input))
  IN IF ~key.ok THEN ParseFail
     ELSE LET afterKey == TrimStart(key.rest)
          IN IF afterKey = <<>> \/ Head(afterKey) # ":" THEN ParseFail
             ELSE LET v == ParseValue(Tail(afterKey))
                  IN IF ~v.ok THEN ParseFail
                     ELSE LET members == SetMember(acc, key.val.s, v.val)
                              after == TrimStart(v.rest)
                          IN IF after = <<>> THEN ParseFail
                             ELSE IF Head(after) = "}"
                               THEN ParseOk(JObj(members), Tail(after))
                             ELSE IF Head(after) = ","
                               THEN ParseMembers(Tail(after), members)
                             ELSE ParseFail

\* JSON.parse(text): one value, white space around it, nothing else
JSONParse(text) ==
  LET v == ParseValue(text)
  IN IF v.ok /\ TrimStart(v.rest) = <<>> THEN [ok |-> TRUE, val |-> v.val]
     ELSE [ok |-> FALSE, val |-> JNull]

RECURSIVE JSONStringify(_)
RECURSIVE StringifyMembers(_)

JSONStringify(v) ==
  CASE v.t = "null" -> <<"null">>
    [] v.t = "bool" -> IF v.b THEN <<"true">> ELSE <<"false">>
    [] v.t = "num" -> <<DigitOf(v.n)>>
    [] v.t = "str" -> <<Quote>> \o v.s \o <<Quote>>
    [] v.t = "obj" -> <<"{">> \o StringifyMembers(v.o) \o <<"}">>

StringifyMembers(members) ==
  IF members = <<>> THEN <<>>
  ELSE <<Quote>> \o Head(members).k \o <<Quote, ":">> \o JSONStringify(Head(members).v)
       \o (IF Len(members) > 1 THEN <<",">> ELSE <<>>)
       \o StringifyMembers(Tail(members))

\* JavaScript truthiness of a value
Falsy(v) ==
  \/ v.t = "null"
  \/ v.t = "num" /\ v.n = 0
  \/ v.t = "str" /\ v.s = <<>>
  \/ v.t = "bool" /\ ~v.b

(***************************************************************************)
(* Response schemas (zod): z.object({name: z.string()}) and z.number()     *)
(***************************************************************************)
ObjectSchema == [kind |-> "object", keys |-> <<<<"name">>>>]

NumberSchema == [kind |-> "number", keys |-> <<>>]

MemberOf(v, key) ==
  LET hits == {i \in 1..Len(v.o) : v.o[i].k = key}
  IN IF hits = {} THEN [found |-> FALSE, v |-> JNull]
     ELSE [found |-> TRUE, v |-> v.o[CHOOSE i \in hits : TRUE].v]

\* schema.parse(data): the typed value (an object keeps only the keys of the
\* schema, in schema order), or a ZodError
SchemaParse(sch, data) ==
  IF sch.kind = "number"
    THEN [ok |-> data.t = "num", val |-> data]
    ELSE IF data.t = "obj"
            /\ \A i \in 1..Len(sch.keys) :
                 MemberOf(data, sch.keys[i]).found
                 /\ MemberOf(data, sch.keys[i]).v.t = "str"
      THEN [ok |-> TRUE,
            val |-> JObj([i \in 1..Len(sch.keys) |->
                            [k |-> sch.keys[i], v |-> MemberOf(data, sch.keys[i]).v]])]
      ELSE [ok |-> FALSE, val |-> data]

(***************************************************************************)
(* Thrown values and the settlement of run                                 *)
(***************************************************************************)
\* a thrown value: an Error object or any other value, with its message (or
\* its String() form) and the invocation of run that threw it; wrapped marks
\* an Error object made from a thrown value that was not one
ErrorObj(m, n) == [isError |-> TRUE, msg |-> m, at |-> n, wrapped |-> FALSE]

ThrownValue(m, n) == [isError |-> FALSE, msg |-> m, at |-> n, wrapped |-> FALSE]

\* null, where an error is expected
NoError == [isError |-> FALSE, msg |-> <<>>, at |-> 0, wrapped |-> FALSE]

Pending == [kind |-> "pending", val |-> JNull, err |-> NoError]

Resolved(v) == [kind |-> "resolved", val |-> v, err |-> NoError]

Rejected(e) == [kind |-> "rejected", val |-> JNull, err |-> e]

NoReturn == [kind |-> "none", messages |-> <<>>]

\* a local catch that throws a new error in place of the value it caught
NodeThrowsWrapped(nodeName, e) ==
  /\ pc' = "failed"
  /\ path' = Append(path, nodeName)
  /\ runOutcome' = Rejected(ErrorObj(<<"Node failed: ">> \o e.msg, e.at))
  /\ ret' = NoReturn

\* run invoking the graph again after a node threw
NodeThrowsRestarts(nodeName, e) ==
  /\ pc' = START_NODE
  /\ path' = Append(path, nodeName)
  /\ runOutcome' = runOutcome
  /\ ret' = NoReturn

\* a node threw: the graph stops and the catch of run rethrows the value
NodeThrows(nodeName, e) ==
  /\ pc' = "failed"
  /\ path' = Append(path, nodeName)
  /\ runOutcome' = Rejected(e)
  /\ ret' = NoReturn

(***************************************************************************)
(* createLLMNode                                                           *)
(***************************************************************************)
\* the normalisation building a new AIMessage from the content of any response
NormalizeResponseRewraps(response) ==
  CASE response.kind = "ai" -> AIMessage(response.msg.content, <<>>)
    [] response.kind = "string" -> AIMessage(TextContent(response.msg.content.text), <<>>)
    [] response.kind = "other" ->
         LET c == response.msg.content
         IN IF ~response.hasContent THEN AIMessage(TextContent(<<>>), <<>>)
            ELSE IF c.isText
              THEN IF JSONParse(c.text).ok
                     THEN AIMessage(StructuredContent(JSONParse(c.text).val), <<>>)
                     ELSE AIMessage(c, <<>>)
              ELSE AIMessage(c, <<>>)

\* the normalisation wrapping a string in a HumanMessage
NormalizeResponseHuman(response) ==
  CASE response.kind = "ai" -> response.msg
    [] response.kind = "string" -> HumanMessage(TextContent(response.msg.content.text))
    [] response.kind = "other" ->
         LET c == response.msg.content
         IN IF ~response.hasContent THEN AIMessage(TextContent(<<>>), <<>>)
            ELSE IF c.isText
              THEN IF JSONParse(c.text).ok
                     THEN AIMessage(StructuredContent(JSONParse(c.text).val), <<>>)
                     ELSE AIMessage(c, <<>>)
              ELSE AIMessage(c, <<>>)

\* the normalisation of a response that did not throw into an AIMessage.
\* kind "string": a string; "ai": an AIMessage instance, response.msg;
\* "other": an object carrying content (hasContent) that is not an AIMessage
NormalizeResponse(response) ==
  CASE response.kind = "ai" -> response.msg
    [] response.kind = "string" -> AIMessage(TextContent(response.msg.content.text), <<>>)
    [] response.kind = "other" ->
         LET c == response.msg.content
         IN IF ~response.hasContent THEN AIMessage(TextContent(<<>>), <<>>)
            ELSE IF c.isText
              THEN IF JSONParse(c.text).ok
                     THEN AIMessage(StructuredContent(JSONParse(c.text).val), <<>>)
                     ELSE AIMessage(c, <<>>)
              ELSE AIMessage(c, <<>>)

\* the node handing the model the last message only
LLMNodeStepLastMessage(nodeName, next, response) ==
  /\ pc = nodeName
  /\ modelCalls' = Append(modelCalls, IF messages = <<>> THEN <<>>
                                       ELSE <<messages[Len(messages)]>>)
  /\ IF response.kind = "throw"
       THEN /\ NodeThrows(nodeName, response.err)
            /\ UNCHANGED stateVars
       ELSE LET returned == Append(messages, NormalizeResponse(response))
            IN /\ ret' = [kind |-> "partial", messages |-> returned]
               /\ messages' = messagesStateReducer(messages, returned, nextId)
               /\ nextId' = nextId + CountNoId(returned)
               /\ UNCHANGED <<result, runOutcome>>
               /\ pc' = next
               /\ path' = Append(path, nodeName)
  /\ UNCHANGED <<cfgVars, toolVars, retryVars>>

\* one execution of the node created for nodeName, whose edge leads to next;
\* the model either throws or answers with response
LLMNodeStep(nodeName, next, response) ==
  /\ pc = nodeName
  /\ modelCalls' = Append(modelCalls, messages)
  /\ IF response.kind = "throw"
       THEN /\ NodeThrows(nodeName, response.err)
            /\ UNCHANGED stateVars
       ELSE LET returned == Append(messages, NormalizeResponse(response))
            IN /\ ret' = [kind |-> "partial", messages |-> returned]
               /\ messages' = messagesStateReducer(messages, returned, nextId)
               /\ nextId' = nextId + CountNoId(returned)
               /\ UNCHANGED <<result, runOutcome>>
               /\ pc' = next
               /\ path' = Append(path, nodeName)
  /\ UNCHANGED <<cfgVars, toolVars, retryVars>>

(***************************************************************************)
(* createParseNode                                                         *)
(***************************************************************************)
\* the token standing for three backticks
Fence == "[fence]"

\* the regular expression of the code-block extraction on text: an opening
\* fence, an optional json tag, white space, the shortest body followed by
\* white space and a closing fence.  group is its first capture group.
CodeBlockMatch(text) ==
  LET open == IndexOf(text, Fence)
  IN IF open = 0 THEN [matched |-> FALSE, group |-> <<>>]
     ELSE LET after == SubSeq(text, open + 1, Len(text))
              untagged == IF after # <<>> /\ Head(after) = "json" THEN Tail(after) ELSE after
              body == TrimStart(untagged)
              close == IndexOf(body, Fence)
          IN IF close = 0 THEN [matched |-> FALSE, group |-> <<>>]
             ELSE [matched |-> TRUE, group |-> TrimEnd(SubSeq(body, 1, close - 1))]

\* the extraction taking the text between the first and the last fence
ProcessedOutputGreedy(messageContent) ==
  LET open == IndexOf(messageContent, Fence)
      after == SubSeq(messageContent, open + 1, Len(messageContent))
      closes == {i \in 1..Len(after) : after[i] = Fence}
      last == CHOOSE i \in closes : \A j \in closes : j <= i
      untagged == IF after # <<>> /\ Head(after) = "json" THEN Tail(after) ELSE after
      skipped == Len(after) - Len(untagged)
  IN IF open = 0 \/ closes = {} THEN messageContent
     ELSE IF Trim(SubSeq(untagged, 1, last - 1 - skipped)) = <<>> THEN messageContent
     ELSE Trim(SubSeq(untagged, 1, last - 1 - skipped))

\* processedOutput
ProcessedOutput(messageContent) ==
  LET m == CodeBlockMatch(messageContent)
  IN IF m.matched /\ m.group # <<>> THEN Trim(m.group) ELSE messageContent

TypeMismatchMsg == <<"Expected the last message to be an AIMessage for parsing">>

MalformedMsg == <<"Failed to parse JSON output from agent: ">>

SchemaViolationMsg == <<"Output validation failed: ">>

NoResultMsg == <<"Workflow completed but no result was produced">>

\* the node reporting a schema failure the way it reports a decoding failure
ParseOutcomeOneClass(msgs, sch) ==
  IF ~LastIsAI(msgs) THEN [ok |-> FALSE, msg |-> TypeMismatchMsg, val |-> JNull]
  ELSE LET c == msgs[Len(msgs)].content
           messageContent == IF c.isText THEN c.text ELSE JSONStringify(c.val)
           jsonData == JSONParse(ProcessedOutput(messageContent))
       IN IF ~jsonData.ok THEN [ok |-> FALSE, msg |-> MalformedMsg, val |-> JNull]
          ELSE LET parsed == SchemaParse(sch, jsonData.val)
               IN IF ~parsed.ok
                    THEN [ok |-> FALSE, msg |-> MalformedMsg, val |-> JNull]
                    ELSE [ok |-> TRUE, msg |-> <<>>, val |-> parsed.val]

\* the node decoding the last message whatever its class
ParseOutcomeAnyRole(msgs, sch) ==
  IF msgs = <<>> THEN [ok |-> FALSE, msg |-> TypeMismatchMsg, val |-> JNull]
  ELSE LET c == msgs[Len(msgs)].content
           messageContent == IF c.isText THEN c.text ELSE JSONStringify(c.val)
           jsonData == JSONParse(ProcessedOutput(messageContent))
       IN IF ~jsonData.ok THEN [ok |-> FALSE, msg |-> MalformedMsg, val |-> JNull]
          ELSE LET parsed == SchemaParse(sch, jsonData.val)
               IN IF ~parsed.ok
                    THEN [ok |-> FALSE, msg |-> SchemaViolationMsg, val |-> JNull]
                    ELSE [ok |-> TRUE, msg |-> <<>>, val |-> parsed.val]

\* the node returning the decoded value without validating it
ParseOutcomeUnvalidated(msgs, sch) ==
  IF ~LastIsAI(msgs) THEN [ok |-> FALSE, msg |-> TypeMismatchMsg, val |-> JNull]
  ELSE LET c == msgs[Len(msgs)].content
           messageContent == IF c.isText THEN c.text ELSE JSONStringify(c.val)
           jsonData == JSONParse(ProcessedOutput(messageContent))
       IN IF ~jsonData.ok THEN [ok |-> FALSE, msg |-> MalformedMsg, val |-> JNull]
          ELSE [ok |-> TRUE, msg |-> <<>>, val |-> jsonData.val]

\* the outcome of the node on msgs: the error it throws, or the result
ParseOutcome(msgs, sch) ==
  IF ~LastIsAI(msgs) THEN [ok |-> FALSE, msg |-> TypeMismatchMsg, val |-> JNull]
  ELSE LET c == msgs[Len(msgs)].content
           messageContent == IF c.isText THEN c.text ELSE JSONStringify(c.val)
           jsonData == JSONParse(ProcessedOutput(messageContent))
       IN IF ~jsonData.ok THEN [ok |-> FALSE, msg |-> MalformedMsg, val |-> JNull]
          ELSE LET parsed == SchemaParse(sch, jsonData.val)
               IN IF ~parsed.ok
                    THEN [ok |-> FALSE, msg |-> SchemaViolationMsg, val |-> JNull]
                    ELSE [ok |-> TRUE, msg |-> <<>>, val |-> parsed.val]

ParseNode ==
  /\ pc = PARSE_NODE
  /\ LET out == ParseOutcome(messages, schema)
     IN IF out.ok
          THEN /\ result' = [set |-> TRUE, val |-> out.val]
               /\ ret' = [kind |-> "result", messages |-> <<>>]
               /\ pc' = END_NODE
               /\ path' = Append(path, PARSE_NODE)
               /\ UNCHANGED runOutcome
          ELSE /\ NodeThrows(PARSE_NODE, ErrorObj(out.msg, calls))
               /\ UNCHANGED result
  /\ UNCHANGED <<cfgVars, messages, nextId, toolVars, modelCalls, retryVars>>

(***************************************************************************)
(* What the chat model can answer                                          *)
(***************************************************************************)
Echo == <<"echo">>
EchoUpper == <<"Echo">>
EmptyName == <<>>
BlankName == <<" ">>
Missing == <<"nope">>

ObjText == <<"{", Quote, "name", Quote, ":", Quote, "A", Quote, "}">>
ZeroText == <<"0">>
SevenText == <<"7">>
JunkText == <<"Test response">>

ModelTexts == {ObjText, ZeroText, SevenText, JunkText}

\* the tool-call requests a response of the model is made of
ModelToolCalls ==
  { ToolCall(Echo, "x", "c1"), ToolCall(EmptyName, "x", "c2"),
    ToolCall(Missing, "y", "c2") }

SeqsUpTo(S, n) == UNION {[1..k -> S] : k \in 0..n}

ModelCallLists == SeqsUpTo(ModelToolCalls, MaxCalls)

Response(k, m, has, e) == [kind |-> k, msg |-> m, hasContent |-> has, err |-> e]

\* model.invoke throws, or returns a string, an AIMessage (a new one, or an
\* object it has returned before), or another object with or without content
ModelResponses ==
  { Response("throw", AIMessage(TextContent(<<>>), <<>>), FALSE, e) :
      e \in {ErrorObj(<<"LLM Error">>, calls), ThrownValue(<<"overloaded">>, calls)} }
  \cup { Response("string", AIMessage(TextContent(t), <<>>), TRUE, NoError) : t \in ModelTexts }
  \cup { Response("ai", AIMessage(TextContent(t), <<>>), TRUE, NoError) : t \in ModelTexts }
  \cup { Response("ai", AIMessage(TextContent(JunkText), l), TRUE, NoError) :
           l \in ModelCallLists \ {<<>>} }
  \cup { Response("ai", messages[i], TRUE, NoError) :
           i \in {j \in 1..Len(messages) : messages[j].role = "ai"} }
  \cup { Response("other", AIMessage(TextContent(t), <<>>), TRUE, NoError) : t \in ModelTexts }
  \cup { Response("other", AIMessage(StructuredContent(JNum(0)), <<>>), h, NoError) :
           h \in BOOLEAN }

(***************************************************************************)
(* The compiled graph (connectWorkflowEdges) and AgentWorkflow.run         *)
(***************************************************************************)
\* compiledGraph.invoke(initialState): the input goes through the reducer of
\* the messages channel, then the edge START -> LLM_WITH_TOOLS is taken
GraphStart ==
  /\ pc = START_NODE
  /\ messages' = messagesStateReducer(<<>>, messages, nextId)
  /\ nextId' = nextId + CountNoId(messages)
  /\ pc' = LLM_WITH_TOOLS_NODE
  /\ path' = Append(path, START_NODE)
  /\ UNCHANGED <<cfgVars, result, toolVars, ret, modelCalls, runOutcome, retryVars>>

LlmWithTools == \E r \in ModelResponses : LLMNodeStep(LLM_WITH_TOOLS_NODE, "route", r)

\* the conditional edge out of LLM_WITH_TOOLS
Route ==
  /\ pc = "route"
  /\ pc' = shouldContinue(messages)
  /\ UNCHANGED <<cfgVars, stateVars, toolVars, path, ret, modelCalls, runOutcome, retryVars>>

\* the tool-free node wired back to the conditional edge
LlmLoopsBack == \E r \in ModelResponses : LLMNodeStep(LLM_NODE, "route", r)

Llm == \E r \in ModelResponses : LLMNodeStep(LLM_NODE, PARSE_NODE, r)

\* !finalState || !finalState.result
NoResultProduced == ~result.set \/ Falsy(result.val)

\* the graph reached END: run checks finalState.result and returns it
RunEnd ==
  /\ pc = END_NODE
  /\ path' = Append(path, END_NODE)
  /\ IF NoResultProduced
       THEN /\ pc' = "failed"
            /\ runOutcome' = Rejected(ErrorObj(NoResultMsg, calls))
       ELSE /\ pc' = "done"
            /\ runOutcome' = Resolved(result.val)
  /\ UNCHANGED <<cfgVars, stateVars, toolVars, ret, modelCalls, retryVars>>

(***************************************************************************)
(* AIAgent: the constructor                                                *)
(***************************************************************************)
DEFAULT_MAX_RETRIES == 3

DEFAULT_BASE_DELAY == 1000

\* an optional number of the options: given, or left undefined
Given(v) == [given |-> TRUE, val |-> v]

NotGiven == [given |-> FALSE, val |-> 0]

\* a constructor that takes the default for every falsy option
ConfiguredMaxRetriesOrDefault(opts) ==
  IF opts.maxRetries.given /\ opts.maxRetries.val # 0
    THEN opts.maxRetries.val ELSE DEFAULT_MAX_RETRIES

\* this.maxRetries = options.maxRetries ?? DEFAULT_MAX_RETRIES
ConfiguredMaxRetries(opts) ==
  IF opts.maxRetries.given THEN opts.maxRetries.val ELSE DEFAULT_MAX_RETRIES

\* this.baseDelay = options.baseDelay ?? DEFAULT_BASE_DELAY
ConfiguredBaseDelay(opts) ==
  IF opts.baseDelay.given THEN opts.baseDelay.val ELSE DEFAULT_BASE_DELAY

\* this.systemInstructions = options.systemInstructions ?? []
ConfiguredInstructions(opts) ==
  IF opts.systemInstructions.given THEN opts.systemInstructions.val ELSE <<>>

Options(mr, bd, si) == [maxRetries |-> mr, baseDelay |-> bd, systemInstructions |-> si]

(***************************************************************************)
(* AIAgent.formatPrompt                                                    *)
(***************************************************************************)
\* a tool with the description the prompt shows
DescribedTool(nm, d) == [name |-> nm, description |-> d]

\* parts.join(sep), on texts
RECURSIVE Join(_, _)
Join(parts, sep) ==
  IF parts = <<>> THEN <<>>
  ELSE IF Len(parts) = 1 THEN parts[1]
  ELSE parts[1] \o sep \o Join(Tail(parts), sep)

\* parts.filter(Boolean), on texts: the empty string is dropped
RECURSIVE FilterBoolean(_)
FilterBoolean(parts) ==
  IF parts = <<>> THEN <<>>
  ELSE (IF Head(parts) = <<>> THEN <<>> ELSE <<Head(parts)>>) \o FilterBoolean(Tail(parts))

InstructionsHeader == <<"=== SYSTEM INSTRUCTIONS ===">>

ToolsHeader == <<"=== TOOLS ===">>

OutputHeader == <<"=== OUTPUT FORMAT ===">>

\* the line of one tool in the tools section
ToolDescription(t) == <<"- **">> \o t.name \o <<"**: ">> \o t.description

ToolGuidelines ==
  <<"Tool Usage Guidelines:", "\n",
    "- Only use tools when necessary and when you have all required information", "\n",
    "- Collect all required information before using tools", "\n",
    "- Do not use the same tool repeatedly without new information">>

\* a section with its header and guidelines even when there is no tool
toolsSectionAlways(ts) ==
  ToolsHeader \o <<"\n", "Available tools:", "\n">>
    \o Join([i \in 1..Len(ts) |-> ToolDescription(ts[i])], <<"\n">>)
    \o <<"\n\n">> \o ToolGuidelines

\* toolsSection
toolsSection(ts) ==
  IF Len(ts) > 0
    THEN ToolsHeader \o <<"\n", "Available tools:", "\n">>
           \o Join([i \in 1..Len(ts) |-> ToolDescription(ts[i])], <<"\n">>)
           \o <<"\n\n">> \o ToolGuidelines
    ELSE <<>>

\* outputParser.getFormatInstructions(): a text made from the schema
GetFormatInstructions(sch) == <<"JSON Schema of ", sch.kind>>

ExampleResponse ==
  <<"{", "\n", "  \"name\": \"Assistant\",", "\n",
    "  \"text\": \"Here is my response to your query\",", "\n",
    "  \"finished\": false", "\n", "}">>

\* formatInstructions
formatInstructions(sch) ==
  OutputHeader
    \o <<"\n", "Your response must be provided in the following JSON format:", "\n">>
    \o GetFormatInstructions(sch)
    \o <<"\n\n", "Example response format:", "\n">> \o ExampleResponse

\* msg.content of a message whose content is a string
ContentOf(msg) == msg.content.text

\* systemInstructionsContent
systemInstructionsContent(instructions, ts, sch) ==
  Join(FilterBoolean(<<InstructionsHeader>>
                       \o [i \in 1..Len(instructions) |-> ContentOf(instructions[i])]
                       \o <<toolsSection(ts), formatInstructions(sch)>>),
       <<"\n\n">>)

\* the context messages put after the input of the caller
formatPromptInputFirst(instructions, ts, sch, inp, ctx) ==
  <<SystemMessage(TextContent(systemInstructionsContent(instructions, ts, sch)))>>
    \o <<inp>> \o ctx

\* formatPrompt(input, context) of an agent with the system instructions
\* instructions, the tools ts and the response format sch
formatPrompt(instructions, ts, sch, inp, ctx) ==
  <<SystemMessage(TextContent(systemInstructionsContent(instructions, ts, sch)))>>
    \o ctx \o <<inp>>

(***************************************************************************)
(* AgentWorkflow.runWithRetries                                            *)
(***************************************************************************)
RECURSIVE Pow2(_)
Pow2(k) == IF k <= 0 THEN 1 ELSE 2 * Pow2(k - 1)

UnexpectedMsg == <<"Unexpected error: All retry attempts failed without specific error.">>

\* a catch block that makes a new Error from whatever it caught
AsErrorAlwaysWraps(e) == [e EXCEPT !.isError = TRUE, !.wrapped = TRUE]

\* error instanceof Error ? error : new Error(String(error))
AsError(e) == IF e.isError THEN e ELSE [e EXCEPT !.isError = TRUE, !.wrapped = TRUE]

\* a delay that grows linearly
BackoffDelayLinear(base, k) == base * 2 * k

\* baseDelay * 2 ** attempt
BackoffDelay(base, k) == base * Pow2(k)

\* a catch block that keeps the first error it saw
CaughtErrorKeepFirst(prev, e) == IF prev # NoError THEN prev ELSE AsError(e)

\* lastError = ..., in the catch block: the value of lastError after it caught
\* e, prev being its value before
CaughtError(prev, e) == AsError(e)

\* the loop condition, then either the call of run or the final throw
RetryAttempt ==
  /\ rpc = "loop"
  /\ IF attempt < maxRetries + 1
       THEN /\ rpc' = "running"
            /\ calls' = calls + 1
            /\ runOutcome' = Pending
            /\ UNCHANGED settled
       ELSE /\ rpc' = "rejected"
            /\ settled' = Rejected(IF lastError # NoError
                                     THEN lastError
                                     ELSE ErrorObj(UnexpectedMsg, 0))
            /\ UNCHANGED <<calls, runOutcome>>
  /\ UNCHANGED <<cfgVars, stateVars, toolVars, pc, path, ret, modelCalls,
                 maxRetries, baseDelay, attempt, lastError, waits, runLog>>

\* the try block awaiting run without returning its value
RetrySettleNoReturn ==
  /\ rpc = "running"
  /\ runOutcome.kind # "pending"
  /\ runLog' = Append(runLog, runOutcome)
  /\ IF runOutcome.kind = "resolved"
       THEN /\ rpc' = "loop"
            /\ attempt' = attempt + 1
            /\ UNCHANGED <<lastError, settled>>
       ELSE /\ lastError' = CaughtError(lastError, runOutcome.err)
            /\ IF attempt < maxRetries
                 THEN rpc' = "sleep" /\ UNCHANGED attempt
                 ELSE rpc' = "loop" /\ attempt' = attempt + 1
            /\ UNCHANGED settled
  /\ UNCHANGED <<cfgVars, stateVars, toolVars, runVars, maxRetries, baseDelay, waits, calls>>

\* a catch block that gives up when run produced no result
RetrySettleFatalNoResult ==
  /\ rpc = "running"
  /\ runOutcome.kind # "pending"
  /\ runLog' = Append(runLog, runOutcome)
  /\ IF runOutcome.kind = "resolved"
       THEN /\ rpc' = "resolved"
            /\ settled' = Resolved(runOutcome.val)
            /\ UNCHANGED <<lastError, attempt>>
       ELSE /\ lastError' = CaughtError(lastError, runOutcome.err)
            /\ IF runOutcome.err.msg = NoResultMsg
                 THEN /\ rpc' = "rejected"
                      /\ settled' = Rejected(CaughtError(lastError, runOutcome.err))
                      /\ UNCHANGED attempt
                 ELSE /\ IF attempt < maxRetries
                           THEN rpc' = "sleep" /\ UNCHANGED attempt
                           ELSE rpc' = "loop" /\ attempt' = attempt + 1
                      /\ UNCHANGED settled
  /\ UNCHANGED <<cfgVars, stateVars, toolVars, runVars, maxRetries, baseDelay, waits, calls>>

\* the awaited run settled: return its value, or the catch block
RetrySettle ==
  /\ rpc = "running"
  /\ runOutcome.kind # "pending"
  /\ runLog' = Append(runLog, runOutcome)
  /\ IF runOutcome.kind = "resolved"
       THEN /\ rpc' = "resolved"
            /\ settled' = Resolved(runOutcome.val)
            /\ UNCHANGED <<lastError, attempt>>
       ELSE /\ lastError' = CaughtError(lastError, runOutcome.err)
            /\ IF attempt < maxRetries
                 THEN rpc' = "sleep" /\ UNCHANGED attempt
                 ELSE rpc' = "loop" /\ attempt' = attempt + 1
            /\ UNCHANGED settled
  /\ UNCHANGED <<cfgVars, stateVars, toolVars, runVars, maxRetries, baseDelay, waits, calls>>

\* await new Promise((resolve) => setTimeout(resolve, delay)), then attempt++
RetrySleep ==
  /\ rpc = "sleep"
  /\ waits' = Append(waits, BackoffDelay(baseDelay, attempt))
  /\ attempt' = attempt + 1
  /\ rpc' = "loop"
  /\ UNCHANGED <<cfgVars, stateVars, toolVars, runVars, maxRetries, baseDelay,
                 lastError, calls, runLog, settled>>

\* run seen from runWithRetries: it resolves with a value or rejects with
\* a thrown value
\* the messages of the errors run rejects with: a test error, the error of
\* the chat-model client, those of the parse node and that of run itself
RunFailures ==
  { <<"Always fails">>, <<"LLM Error">>, MalformedMsg, SchemaViolationMsg,
    TypeMismatchMsg, NoResultMsg }

RunValues == {JNum(0), JNum(7), JObj(<<[k |-> <<"testKey">>, v |-> JStr(<<"Success">>)]>>)}

RunSettles ==
  /\ rpc = "running"
  /\ runOutcome = Pending
  /\ runOutcome' \in
       {Resolved(v) : v \in RunValues}
       \cup {Rejected(ErrorObj(m, calls)) : m \in RunFailures}
       \cup {Rejected(ThrownValue(<<"String error">>, calls))}
  /\ UNCHANGED <<cfgVars, stateVars, toolVars, pc, path, ret, modelCalls, retryVars>>

(***************************************************************************)
(* AIAgent.run                                                             *)
(***************************************************************************)
\* a state without result
NoResult == [set |-> FALSE, val |-> JNull]

\* initialState.messages: formattedMessages
FormattedMessages ==
  formatPrompt(ConfiguredInstructions(options), tools, schema, userInput, context)

\* run calling agentWorkflow.run, without retries
AgentRunNoRetries ==
  /\ rpc = "off"
  /\ pc = "idle"
  /\ messages' = FormattedMessages
  /\ maxRetries' = 0
  /\ baseDelay' = ConfiguredBaseDelay(options)
  /\ attempt' = 0
  /\ lastError' = NoError
  /\ rpc' = "loop"
  /\ UNCHANGED <<cfgVars, result, nextId, toolVars, runVars, waits, calls, runLog, settled>>

\* run(input, context): the messages are formatted into the initial state
\* and runWithRetries is entered with the budget and the delay of the agent
AgentRun ==
  /\ rpc = "off"
  /\ pc = "idle"
  /\ messages' = FormattedMessages
  /\ maxRetries' = ConfiguredMaxRetries(options)
  /\ baseDelay' = ConfiguredBaseDelay(options)
  /\ attempt' = 0
  /\ lastError' = NoError
  /\ rpc' = "loop"
  /\ UNCHANGED <<cfgVars, result, nextId, toolVars, runVars, waits, calls, runLog, settled>>

\* an attempt that would go on from the state the attempt before it left
RunStartsKeepsState ==
  /\ rpc = "running"
  /\ runOutcome = Pending
  /\ pc \in {"idle", "done", "failed"}
  /\ pc' = START_NODE
  /\ path' = <<>>
  /\ ret' = NoReturn
  /\ updatedMessages' = <<>> /\ tcIdx' = 0
  /\ UNCHANGED <<cfgVars, messages, result, nextId, invoked, modelCalls, runOutcome, retryVars>>

\* AgentWorkflow.run(options) called by an attempt: the compiled graph is
\* invoked on options.initialState
RunStarts ==
  /\ rpc = "running"
  /\ runOutcome = Pending
  /\ pc \in {"idle", "done", "failed"}
  /\ pc' = START_NODE
  /\ messages' = FormattedMessages
  /\ result' = NoResult
  /\ path' = <<>>
  /\ ret' = NoReturn
  /\ updatedMessages' = <<>> /\ tcIdx' = 0
  /\ UNCHANGED <<cfgVars, nextId, invoked, modelCalls, runOutcome, retryVars>>

(***************************************************************************)
(* FsCacheAdapter: one JSON file per key in this.directory                 *)
(***************************************************************************)
MaxClock == 3

\* keys, each as its segments between "/": 'foo', 'x/../foo' and 'x/foo'
CacheKeys == { <<"foo">>, <<"x", "..", "foo">>, <<"x", "foo">> }

CacheValues == { JStr(<<"bar">>), JNum(7) }

\* the ttl argument: left out, or a number of milliseconds
Ttls == {NotGiven, Given(0), Given(1)}

RECURSIVE Normalize(_, _)

\* path normalisation: ".." steps out of the segment before it
Normalize(segments, acc) ==
  IF segments = <<>> THEN acc
  ELSE IF Head(segments) = ".." /\ acc # <<>> /\ acc[Len(acc)] # ".."
    THEN Normalize(Tail(segments), SubSeq(acc, 1, Len(acc) - 1))
    ELSE Normalize(Tail(segments), Append(acc, Head(segments)))

\* join(this.directory, key), relative to this.directory
join(key) == Normalize(key, <<>>)

\* the path names an entry of the directory itself: the adapter creates
\* no directory but this.directory
InDirectory(p) == Len(p) = 1

FileNames == { join(k)[1] : k \in {c \in CacheKeys : InDirectory(join(c))} }

NoFile == [exists |-> FALSE, value |-> JNull, expiresAt |-> NotGiven]

\* the file's text is JSON.stringify({value, expiresAt}), read back by
\* JSON.parse: a JSON value comes back equal, an undefined expiresAt is
\* left out and comes back undefined
FileContent(value, expiresAt) ==
  [exists |-> TRUE, value |-> value, expiresAt |-> expiresAt]

\* how a call settled: resolved with a value or with undefined, or rejected
NoOutcome == [op |-> "none", key |-> <<>>, ok |-> TRUE, defined |-> FALSE, val |-> JNull]

Returned(op, key, v) == [op |-> op, key |-> key, ok |-> TRUE, defined |-> TRUE, val |-> v]

ReturnedUndefined(op, key) ==
  [op |-> op, key |-> key, ok |-> TRUE, defined |-> FALSE, val |-> JNull]

Threw(op, key) == [op |-> op, key |-> key, ok |-> FALSE, defined |-> FALSE, val |-> JNull]

NeverSet == [done |-> FALSE, value |-> JNull, ttl |-> NotGiven, at |-> 0, removed |-> FALSE]

\* a directory with no file in it and no call made yet
CacheEmpty ==
  /\ files = [f \in FileNames |-> NoFile]
  /\ now = 1
  /\ got = NoOutcome
  /\ lastSet = [k \in CacheKeys |-> NeverSet]

\* set(key, value, ttl): writeFile rejects when the path is not a file of
\* the directory, and so does set
set(key, value, ttl) ==
  LET expiresAt == IF ttl.given /\ ttl.val # 0 THEN Given(now + ttl.val) ELSE NotGiven
      p == join(key)
  IN  /\ IF InDirectory(p)
            THEN /\ files' = [files EXCEPT ![p[1]] = FileContent(value, expiresAt)]
                 /\ lastSet' = [lastSet EXCEPT ![key] =
                                  [done |-> TRUE, value |-> value, ttl |-> ttl,
                                   at |-> now, removed |-> FALSE]]
                 /\ got' = ReturnedUndefined("set", key)
            ELSE /\ got' = Threw("set", key)
                 /\ UNCHANGED <<files, lastSet>>
      /\ UNCHANGED <<now, agentVars>>

\* get(key): undefined when the file cannot be read; an expired entry is
\* deleted and undefined is returned
get(key) ==
  LET p == join(key)
      readable == InDirectory(p) /\ files[p[1]].exists
      expiresAt == files[p[1]].expiresAt
      expired == /\ readable
                 /\ expiresAt.given /\ expiresAt.val # 0
                 /\ now > expiresAt.val
  IN  /\ files' = IF expired THEN [files EXCEPT ![p[1]] = NoFile] ELSE files
      /\ got' = IF readable /\ ~expired
                  THEN Returned("get", key, files[p[1]].value)
                  ELSE ReturnedUndefined("get", key)
      /\ UNCHANGED <<now, lastSet, agentVars>>

\* delete(key): true when unlink succeeded
delete(key) ==
  LET p == join(key)
      unlinked == InDirectory(p) /\ files[p[1]].exists
  IN  /\ files' = IF unlinked THEN [files EXCEPT ![p[1]] = NoFile] ELSE files
      /\ got' = Returned("delete", key, JBool(unlinked))
      /\ lastSet' = [lastSet EXCEPT ![key].removed = TRUE]
      /\ UNCHANGED <<now, agentVars>>

\* flush(): every file of the directory is unlinked
flush ==
  /\ files' = [f \in FileNames |-> NoFile]
  /\ got' = ReturnedUndefined("flush", <<>>)
  /\ lastSet' = [k \in CacheKeys |-> [lastSet[k] EXCEPT !.removed = TRUE]]
  /\ UNCHANGED <<now, agentVars>>

\* keys('*'): the names readdir lists
keys == {f \in FileNames : files[f].exists}

\* a millisecond passes between two calls
TimePasses ==
  /\ now < MaxClock
  /\ now' = now + 1
  /\ got' = NoOutcome
  /\ UNCHANGED <<files, lastSet, agentVars>>

(***************************************************************************)
(* Initial states and specifications                                       *)
(***************************************************************************)
ToolSets ==
  { <<>>, <<Tool(Echo), Tool(EchoUpper)>>, <<Tool(Echo), Tool(UnknownToolName)>> }

Schemas == {ObjectSchema, NumberSchema}

Delays == {0, 10, 1000}

\* no second call of AIAgent.run
NoCall == [rpc |-> "none"]

OneCall == active = 1 /\ suspended = NoCall

\* the parts of the state a specification does not use
AgentIdle ==
  /\ OneCall
  /\ CacheEmpty
  /\ options = Options(NotGiven, NotGiven, [given |-> FALSE, val |-> <<>>])
  /\ userInput = HumanMessage(TextContent(<<"Test input">>))
  /\ context = <<>>

RunIdle ==
  /\ pc = "idle" /\ path = <<>> /\ ret = NoReturn /\ modelCalls = <<>>
  /\ runOutcome = Pending

ToolsIdle == updatedMessages = <<>> /\ tcIdx = 0 /\ invoked = <<>>

RetryIdle ==
  /\ maxRetries = 0 /\ baseDelay = 0 /\ attempt = 0 /\ lastError = NoError
  /\ rpc = "off" /\ waits = <<>> /\ calls = 1 /\ runLog = <<>> /\ settled = Pending

\* the retry budgets and base delays an agent is constructed with
RetryOptions ==
  { Options(mr, bd, [given |-> FALSE, val |-> <<>>]) :
      mr \in {NotGiven} \cup {Given(n) : n \in (-1)..MaxRetries},
      bd \in {NotGiven} \cup {Given(d) : d \in Delays} }

\* runWithRetries(options, this.maxRetries, this.baseDelay) with run as a
\* black box
InitRetry ==
  /\ tools = <<>> /\ schema = ObjectSchema
  /\ OneCall
  /\ CacheEmpty
  /\ options \in RetryOptions
  /\ userInput = HumanMessage(TextContent(<<"Test input">>)) /\ context = <<>>
  /\ messages = <<>> /\ result = NoResult /\ nextId = 1
  /\ ToolsIdle
  /\ RunIdle
  /\ maxRetries = ConfiguredMaxRetries(options)
  /\ baseDelay = ConfiguredBaseDelay(options)
  /\ attempt = 0 /\ lastError = NoError /\ rpc = "loop" /\ waits = <<>>
  /\ calls = 0 /\ runLog = <<>> /\ settled = Pending

NextRetry == RetryAttempt \/ RunSettles \/ RetrySettle \/ RetrySleep

SpecRetry == InitRetry /\ [][NextRetry]_vars

\* initialState.messages of a call of run
InitialMessages ==
  { <<>>,
    <<SystemMessage(TextContent(<<"=== SYSTEM INSTRUCTIONS ===">>)),
      HumanMessage(TextContent(<<"Test input">>))>> }

\* one call of AgentWorkflow.run
InitRun ==
  /\ tools \in ToolSets /\ schema \in Schemas
  /\ messages \in InitialMessages /\ result = NoResult /\ nextId = 1
  /\ ToolsIdle
  /\ pc = START_NODE /\ path = <<>> /\ ret = NoReturn /\ modelCalls = <<>>
  /\ runOutcome = Pending
  /\ RetryIdle
  /\ AgentIdle

NextRun ==
  GraphStart \/ LlmWithTools \/ Route \/ ToolsEnter \/ ToolsCall \/ ToolsReturn
  \/ Llm \/ ParseNode \/ RunEnd

SpecRun == InitRun /\ [][NextRun]_vars

(***************************************************************************)
(* shouldContinue and the tools node on any state                          *)
(***************************************************************************)
\* the requests an ai message of such a state is made of
NodeToolCalls ==
  ModelToolCalls \cup {ToolCall(EchoUpper, "y", "c3"), ToolCall(BlankName, "y", "c1")}

NodeCallLists == SeqsUpTo(NodeToolCalls, MaxCalls)

LastMessages ==
  { SystemMessage(TextContent(<<"sys">>)), HumanMessage(TextContent(<<"hi">>)),
    ToolMessage("id", <<"tool">>, TextContent(<<"Not an AIMessage">>)) }
  \cup { AIMessage(TextContent(JunkText), l) : l \in NodeCallLists }

EarlierMessages ==
  { <<>>, <<HumanMessage(TextContent(<<"Test Input">>))>>,
    <<HumanMessage(TextContent(<<"Test Input">>)), AIMessage(TextContent(JunkText), <<>>)>> }

\* state.messages: any sequence, its messages carrying the ids of the reducer
StateMessages ==
  {<<>>} \cup { AssignIds(e \o <<m>>, 1) : e \in EarlierMessages, m \in LastMessages }

InitNode(node) ==
  /\ schema = ObjectSchema
  /\ messages \in StateMessages /\ result = NoResult /\ nextId = Len(messages) + 1
  /\ ToolsIdle
  /\ pc = node /\ path = <<>> /\ ret = NoReturn /\ modelCalls = <<>>
  /\ runOutcome = Pending
  /\ RetryIdle
  /\ AgentIdle

InitRoute == tools = <<>> /\ InitNode("route")

SpecRoute == InitRoute /\ [][Route]_vars

InitTools == tools \in ToolSets /\ InitNode(TOOLS_NODE)

SpecTools == InitTools /\ [][ToolsNode]_vars

(***************************************************************************)
(* The parse node on any state                                             *)
(***************************************************************************)
\* the values the model is asked to produce, and others
ParseValues ==
  { JNum(0), JNum(7), JNull,
    JObj(<<[k |-> <<"name">>, v |-> JStr(<<"A">>)]>>),
    JObj(<<[k |-> <<"name">>, v |-> JStr(<<Fence>>)]>>),
    JObj(<<[k |-> <<"name">>, v |-> JStr(<<"test">>)],
           [k |-> <<"value">>, v |-> JNum(1)]>>),
    JObj(<<[k |-> <<"wrong">>, v |-> JStr(<<"field">>)]>>) }

\* text inside a fenced code block, with or without the json tag
Fenced(text, tagged) ==
  <<Fence>> \o (IF tagged THEN <<"json">> ELSE <<>>) \o <<"\n">> \o text \o <<"\n", Fence>>

ParseTexts ==
  { JSONStringify(v) : v \in ParseValues }
  \cup { Fenced(JSONStringify(v), tagged) : v \in ParseValues, tagged \in BOOLEAN }
  \cup { <<>>, <<"not json">>, Fenced(<<>>, FALSE),
         <<"Here is the answer:", "\n">> \o Fenced(SevenText, TRUE),
         <<"Either", "\n">> \o Fenced(SevenText, TRUE) \o <<"\n", "or", "\n">>
           \o Fenced(ObjText, FALSE) \o <<"\n", "done">>,
         JSONStringify(JObj(<<[k |-> <<"name">>, v |-> JStr(<<Fence, Fence>>)]>>)) }

ParseLastMessages ==
  { AIMessage(TextContent(t), <<>>) : t \in ParseTexts }
  \cup { AIMessage(StructuredContent(v), <<>>) : v \in {JNum(7), JNull} }
  \cup { HumanMessage(TextContent(ObjText)), SystemMessage(TextContent(<<"sys">>)),
         ToolMessage("id", <<"tool">>, TextContent(SevenText)) }

ParseStateMessages ==
  {<<>>} \cup { AssignIds(e \o <<m>>, 1) : e \in EarlierMessages, m \in ParseLastMessages }

InitParse ==
  /\ tools = <<>> /\ schema \in Schemas
  /\ messages \in ParseStateMessages /\ result = NoResult /\ nextId = Len(messages) + 1
  /\ ToolsIdle
  /\ pc = PARSE_NODE /\ path = <<>> /\ ret = NoReturn /\ modelCalls = <<>>
  /\ runOutcome = Pending
  /\ RetryIdle
  /\ AgentIdle

SpecParse == InitParse /\ [][ParseNode]_vars

(***************************************************************************)
(* The model nodes on any state                                            *)
(***************************************************************************)
InitLlm ==
  /\ tools = <<>>
  /\ \E node \in {LLM_WITH_TOOLS_NODE, LLM_NODE} : InitNode(node)

NextLlm == LlmWithTools \/ Llm

SpecLlm == InitLlm /\ [][NextLlm]_vars

(***************************************************************************)
(* formatPrompt on the instructions, tools, context and input of a call    *)
(***************************************************************************)
PromptInstructions ==
  { SystemMessage(TextContent(t)) : t \in {<<"instr">>, <<"Be", " ", "brief">>, <<>>} }

PromptTools ==
  { DescribedTool(<<"tool1">>, <<"Tool one description">>),
    DescribedTool(<<"tool2">>, <<"Tool two description">>) }

PromptContext ==
  { SystemMessage(TextContent(<<"ctx1">>)), HumanMessage(TextContent(<<"hi">>)),
    AIMessage(TextContent(<<"Test response">>), <<>>) }

PromptInputs ==
  {HumanMessage(TextContent(<<"hello">>)), HumanMessage(TextContent(<<"Test input">>))}

\* an agent on which run has not been called yet
AgentConstructed ==
  /\ OneCall
  /\ CacheEmpty
  /\ messages = <<>> /\ result = NoResult /\ nextId = 1
  /\ ToolsIdle
  /\ RunIdle
  /\ maxRetries = 0 /\ baseDelay = 0 /\ attempt = 0 /\ lastError = NoError
  /\ rpc = "off" /\ waits = <<>> /\ calls = 0 /\ runLog = <<>> /\ settled = Pending

InitPrompt ==
  /\ tools \in SeqsUpTo(PromptTools, MaxListed)
  /\ schema \in Schemas
  /\ options \in
       { Options(NotGiven, NotGiven, si) :
           si \in {[given |-> FALSE, val |-> <<>>]}
                    \cup {Given(l) : l \in SeqsUpTo(PromptInstructions, MaxListed)} }
  /\ userInput \in PromptInputs
  /\ context \in SeqsUpTo(PromptContext, MaxListed)
  /\ AgentConstructed

SpecPrompt == InitPrompt /\ [][AgentRun]_vars

(***************************************************************************)
(* AIAgent.run as a whole: runWithRetries around the runs of the graph     *)
(***************************************************************************)
\* what the chat model of an agent answers: it throws an Error or another
\* value, or returns an AIMessage with JSON text, with other text or with a
\* tool-call request
AgentResponses ==
  { Response("throw", AIMessage(TextContent(<<>>), <<>>), FALSE, e) :
      e \in {ErrorObj(<<"LLM Error">>, calls), ThrownValue(<<"overloaded">>, calls)} }
  \cup { Response("ai", AIMessage(TextContent(t), <<>>), TRUE, NoError) :
           t \in {ObjText, JunkText} }
  \cup { Response("ai", AIMessage(TextContent(JunkText), <<ToolCall(Echo, "x", "c1")>>),
                  TRUE, NoError) }

AgentLlmWithTools == \E r \in AgentResponses : LLMNodeStep(LLM_WITH_TOOLS_NODE, "route", r)

AgentLlm == \E r \in AgentResponses : LLMNodeStep(LLM_NODE, PARSE_NODE, r)

AgentOptions ==
  { Options(mr, Given(10), [given |-> FALSE, val |-> <<>>]) :
      mr \in {NotGiven} \cup {Given(n) : n \in 0..MaxRetries} }

InitAgent ==
  /\ tools \in {<<>>, <<DescribedTool(Echo, <<"Echoes its input">>)>>}
  /\ schema = ObjectSchema
  /\ options \in AgentOptions
  /\ userInput = HumanMessage(TextContent(<<"Test input">>))
  /\ context = <<>>
  /\ AgentConstructed

NextAgent ==
  AgentRun \/ RetryAttempt \/ RunStarts \/ GraphStart \/ AgentLlmWithTools \/ Route
  \/ ToolsEnter \/ ToolsCall \/ ToolsReturn \/ AgentLlm \/ ParseNode \/ RunEnd
  \/ RetrySettle \/ RetrySleep

SpecAgent == InitAgent /\ [][NextAgent]_vars

(***************************************************************************)
(* Two calls of AIAgent.run on one agent, their steps interleaved          *)
(***************************************************************************)
\* what a call of run holds in its arguments and locals, in the locals of
\* runWithRetries and of run, and in the state of its graph invocation
CallState ==
  [ userInput |-> userInput, context |-> context, messages |-> messages,
    result |-> result, nextId |-> nextId,
    updatedMessages |-> updatedMessages, tcIdx |-> tcIdx,
    invoked |-> invoked, pc |-> pc, path |-> path, ret |-> ret,
    modelCalls |-> modelCalls, runOutcome |-> runOutcome,
    maxRetries |-> maxRetries, baseDelay |-> baseDelay, attempt |-> attempt,
    lastError |-> lastError, rpc |-> rpc, waits |-> waits, calls |-> calls,
    runLog |-> runLog, settled |-> settled ]

\* the other call going on with the state of the graph this call left
SwitchSharedState ==
  /\ suspended # NoCall
  /\ suspended.rpc \notin {"resolved", "rejected"}
  /\ active' = 3 - active
  /\ suspended' = CallState
  /\ userInput' = suspended.userInput
  /\ context' = suspended.context
  /\ nextId' = suspended.nextId
  /\ updatedMessages' = suspended.updatedMessages
  /\ tcIdx' = suspended.tcIdx
  /\ invoked' = suspended.invoked
  /\ pc' = suspended.pc
  /\ path' = suspended.path
  /\ ret' = suspended.ret
  /\ modelCalls' = suspended.modelCalls
  /\ runOutcome' = suspended.runOutcome
  /\ maxRetries' = suspended.maxRetries
  /\ baseDelay' = suspended.baseDelay
  /\ attempt' = suspended.attempt
  /\ lastError' = suspended.lastError
  /\ rpc' = suspended.rpc
  /\ waits' = suspended.waits
  /\ calls' = suspended.calls
  /\ runLog' = suspended.runLog
  /\ settled' = suspended.settled
  /\ UNCHANGED <<tools, schema, options, messages, result, cacheVars>>

\* the call whose step comes next awaits, and the other call goes on from
\* where it was
Switch ==
  /\ suspended # NoCall
  /\ suspended.rpc \notin {"resolved", "rejected"}
  /\ active' = 3 - active
  /\ suspended' = CallState
  /\ userInput' = suspended.userInput
  /\ context' = suspended.context
  /\ messages' = suspended.messages
  /\ result' = suspended.result
  /\ nextId' = suspended.nextId
  /\ updatedMessages' = suspended.updatedMessages
  /\ tcIdx' = suspended.tcIdx
  /\ invoked' = suspended.invoked
  /\ pc' = suspended.pc
  /\ path' = suspended.path
  /\ ret' = suspended.ret
  /\ modelCalls' = suspended.modelCalls
  /\ runOutcome' = suspended.runOutcome
  /\ maxRetries' = suspended.maxRetries
  /\ baseDelay' = suspended.baseDelay
  /\ attempt' = suspended.attempt
  /\ lastError' = suspended.lastError
  /\ rpc' = suspended.rpc
  /\ waits' = suspended.waits
  /\ calls' = suspended.calls
  /\ runLog' = suspended.runLog
  /\ settled' = suspended.settled
  /\ UNCHANGED <<tools, schema, options, cacheVars>>

\* the ids (uuids) drawn by the second call differ from those of the first
SecondIds == 100

CallInputs ==
  << [userInput |-> HumanMessage(TextContent(<<"hello">>)), context |-> <<>>],
     [userInput |-> HumanMessage(TextContent(<<"Test input">>)),
      context |-> <<SystemMessage(TextContent(<<"ctx1">>))>>] >>

\* the model throws, or answers with JSON text, with or without a tool-call
\* request
ConcurrentResponses ==
  { Response("throw", AIMessage(TextContent(<<>>), <<>>), FALSE,
             ErrorObj(<<"LLM Error">>, calls)),
    Response("ai", AIMessage(TextContent(ObjText), <<>>), TRUE, NoError),
    Response("ai", AIMessage(TextContent(ObjText), <<ToolCall(Echo, "x", "c1")>>),
             TRUE, NoError) }

ConcurrentLlmWithTools ==
  \E r \in ConcurrentResponses : LLMNodeStep(LLM_WITH_TOOLS_NODE, "route", r)

\* a tool-free node wired back to the conditional edge
ConcurrentLlmLoopsBack ==
  \E r \in ConcurrentResponses : LLMNodeStep(LLM_NODE, "route", r)

ConcurrentLlm == \E r \in ConcurrentResponses : LLMNodeStep(LLM_NODE, PARSE_NODE, r)

InitConcurrent ==
  /\ tools = <<DescribedTool(Echo, <<"Echoes its input">>)>>
  /\ schema = ObjectSchema
  /\ options = Options(Given(1), Given(10), [given |-> FALSE, val |-> <<>>])
  /\ userInput = CallInputs[1].userInput /\ context = CallInputs[1].context
  /\ messages = <<>> /\ result = NoResult /\ nextId = 1
  /\ ToolsIdle
  /\ RunIdle
  /\ maxRetries = 0 /\ baseDelay = 0 /\ attempt = 0 /\ lastError = NoError
  /\ rpc = "off" /\ waits = <<>> /\ calls = 0 /\ runLog = <<>> /\ settled = Pending
  /\ CacheEmpty
  /\ active = 1
  /\ suspended =
       [CallState EXCEPT !.userInput = CallInputs[2].userInput,
                         !.context = CallInputs[2].context,
                         !.nextId = SecondIds]

NextConcurrent ==
  AgentRun \/ RetryAttempt \/ RunStarts \/ GraphStart \/ ConcurrentLlmWithTools
  \/ Route \/ ToolsEnter \/ ToolsCall \/ ToolsReturn \/ ConcurrentLlm \/ ParseNode
  \/ RunEnd \/ RetrySettle \/ RetrySleep \/ Switch

SpecConcurrent == InitConcurrent /\ [][NextConcurrent]_vars

(***************************************************************************)
(* One call of AIAgent.run whose model calls and tool calls all complete   *)
(***************************************************************************)
NextCompleting ==
  AgentRun \/ RetryAttempt \/ RunStarts \/ GraphStart \/ ConcurrentLlmWithTools
  \/ Route \/ ToolsEnter \/ ToolsCall \/ ToolsReturn \/ ConcurrentLlm \/ ParseNode
  \/ RunEnd \/ RetrySettle \/ RetrySleep

\* model.invoke(state.messages) returns or raises: the node that awaits it
\* goes on to the next position or the graph fails
ModelCallCompletes ==
  /\ pc \in {LLM_WITH_TOOLS_NODE, LLM_NODE}
  /\ pc' \in {"route", PARSE_NODE, "failed"}

\* the parse node is synchronous: once entered it returns or throws
ParseCompletes ==
  /\ pc = PARSE_NODE
  /\ pc' \in {END_NODE, "failed"}

\* the steps between the model calls and the parse node: tool calls return
\* or raise, timers fire and promise continuations run
OtherSteps ==
  /\ pc \notin {LLM_WITH_TOOLS_NODE, LLM_NODE, PARSE_NODE}
  /\ NextCompleting

\* a step that stays possible is taken
SpecCompleting ==
  /\ InitAgent /\ [][NextCompleting]_vars
  /\ WF_vars(OtherSteps) /\ WF_pc(ModelCallCompletes) /\ WF_pc(ParseCompletes)

(***************************************************************************)
(* Calls on one FsCacheAdapter, one after the other                        *)
(***************************************************************************)
InitCache ==
  /\ tools = <<>> /\ schema = ObjectSchema
  /\ messages = <<>> /\ result = NoResult /\ nextId = 1
  /\ ToolsIdle
  /\ RunIdle
  /\ RetryIdle
  /\ AgentIdle

CacheSet == \E k \in CacheKeys, v \in CacheValues, t \in Ttls : set(k, v, t)

CacheGet == \E k \in CacheKeys : get(k)

CacheDelete == \E k \in CacheKeys : delete(k)

NextCache == CacheSet \/ CacheGet \/ CacheDelete \/ flush \/ TimePasses

SpecCache == InitCache /\ [][NextCache]_vars

(***************************************************************************)
(* Properties of runWithRetries (SpecRetry)                                *)
(***************************************************************************)
RetrySettled == rpc \in {"resolved", "rejected"}

\* C1: when run fails on its first k <= N invocations and succeeds on
\* invocation k+1, runWithRetries resolves with that value and run has been
\* invoked exactly k+1 times: a success is always the last invocation, it is
\* preceded by failures only, and the wrapper never gives up while fewer
\* than N+1 invocations have failed.
C1_FirstSuccessReturned ==
  /\ \A i \in 1..Len(runLog) :
       runLog[i].kind = "resolved" =>
         /\ i = Len(runLog)
         /\ calls = i
         /\ rpc = "resolved"
         /\ settled = Resolved(runLog[i].val)
         /\ \A j \in 1..(i - 1) : runLog[j].kind = "rejected"
  /\ rpc = "resolved" =>
       Len(runLog) >= 1 /\ runLog[Len(runLog)].kind = "resolved"
  /\ (rpc = "rejected" /\ maxRetries >= 0) => Len(runLog) > maxRetries

\* run failed N times and succeeded on the last invocation the budget allows
C1_Witness ==
  /\ rpc = "resolved"
  /\ maxRetries >= 1
  /\ Len(runLog) = maxRetries + 1
  /\ calls = maxRetries + 1

\* C2: when every invocation of run fails (N >= 0), run is invoked exactly
\* N+1 times and runWithRetries rejects with the error of the last
\* invocation.
C2_LastErrorRejected ==
  (rpc = "rejected" /\ maxRetries >= 0) =>
    /\ calls = maxRetries + 1
    /\ Len(runLog) = calls
    /\ \A i \in 1..Len(runLog) : runLog[i].kind = "rejected"
    /\ settled.kind = "rejected"
    /\ settled.err.at = calls
    /\ settled.err.msg = runLog[calls].err.msg

\* all attempts failed, the first and the last with different errors
C2_Witness ==
  /\ rpc = "rejected"
  /\ maxRetries >= 2
  /\ Len(runLog) = maxRetries + 1
  /\ runLog[1].err.msg # runLog[Len(runLog)].err.msg

\* C3: the waits are D*2^0, D*2^1, ... in this order, one between two
\* consecutive attempts, none before the first attempt and none after the
\* last one.
C3_BackoffSchedule ==
  /\ \A i \in 1..Len(waits) : waits[i] = baseDelay * 2^(i - 1)
  /\ rpc \in {"running", "sleep"} => Len(waits) = calls - 1
  /\ rpc = "loop" => Len(waits) \in {calls - 1, calls}
  /\ (rpc = "loop" /\ attempt <= maxRetries) => Len(waits) = calls
  /\ RetrySettled => Len(waits) = (IF calls = 0 THEN 0 ELSE calls - 1)

\* three failed attempts with a non-zero base delay, hence two waits
C3_Witness ==
  /\ rpc = "rejected"
  /\ baseDelay = 10
  /\ calls = 3
  /\ waits = <<10, 20>>

(***************************************************************************)
(* Properties of shouldContinue (SpecRoute)                                *)
(***************************************************************************)
LastCalls(msgs) == IF LastIsAI(msgs) THEN msgs[Len(msgs)].tool_calls ELSE <<>>

NonBlank(nm) == \E j \in 1..Len(nm) : nm[j] # " " /\ nm[j] # "\n"

\* C4 as stated: the route is TOOLS exactly when the last message is an ai
\* message with at least one tool-call request whose name is non-empty.
C4_RouteOnNonEmptyName ==
  pc # "route" =>
    /\ pc \in {TOOLS_NODE, PARSE_NODE}
    /\ pc = TOOLS_NODE <=>
         \E i \in 1..Len(LastCalls(messages)) : LastCalls(messages)[i].name # <<>>

\* C4 as amended: the route is TOOLS exactly when the last message is an ai
\* message with at least one tool-call request whose name contains a
\* character that is not white space; it is PARSE in every other case.
C4_RouteOnNonBlankName ==
  pc # "route" =>
    /\ pc \in {TOOLS_NODE, PARSE_NODE}
    /\ pc = TOOLS_NODE <=>
         \E i \in 1..Len(LastCalls(messages)) : NonBlank(LastCalls(messages)[i].name)

\* routed to PARSE although the ai message carries requests, one of them
\* with a name made of white space
C4_Witness ==
  /\ pc = PARSE_NODE
  /\ \E i \in 1..Len(LastCalls(messages)) : LastCalls(messages)[i].name = BlankName

(***************************************************************************)
(* Properties of one run of the graph (SpecRun)                            *)
(***************************************************************************)
IsPrefix(p, q) == Len(p) <= Len(q) /\ SubSeq(q, 1, Len(p)) = p

DirectPath == <<START_NODE, LLM_WITH_TOOLS_NODE, PARSE_NODE, END_NODE>>

ToolPath ==
  <<START_NODE, LLM_WITH_TOOLS_NODE, TOOLS_NODE, LLM_NODE, PARSE_NODE, END_NODE>>

Count(seq, S) == Cardinality({i \in 1..Len(seq) : seq[i] \in S})

C6_ResultReturned ==
  (path # <<>> /\ path[Len(path)] = END_NODE) =>
    IF result.set
      THEN runOutcome = Resolved(result.val)
      ELSE runOutcome.kind = "rejected" /\ runOutcome.err.msg = NoResultMsg

(***************************************************************************)
(* Properties of the tools node (SpecTools)                                *)
(***************************************************************************)
Registered(nm) == \E t \in 1..Len(tools) : tools[t].name = nm

\* the step in which the node returns
ToolsReturns == pc = TOOLS_NODE /\ pc' = LLM_NODE

\* msgs is before followed by one tool message per request of cs, in order,
\* each with the identifier and the name of its request
AnswersInOrder(before, msgs, cs) ==
  /\ Len(msgs) = Len(before) + Len(cs)
  /\ \A j \in 1..Len(before) : msgs[j] = before[j]
  /\ \A i \in 1..Len(cs) :
       /\ msgs[Len(before) + i].role = "tool"
       /\ msgs[Len(before) + i].tool_call_id = cs[i].id
       /\ msgs[Len(before) + i].name = cs[i].name

\* the same with the ids given by the reducer left out
WithoutIds(msgs) == [j \in 1..Len(msgs) |-> [msgs[j] EXCEPT !.id = NoId]]

\* C7: when the last message is an ai message whose requests all name
\* registered tools, the node appends one tool message per request, in the
\* order of the requests, the i-th with the identifier and the name of the
\* i-th request, and nothing else; the earlier messages stay in place.
C7_OneAnswerPerRequest ==
  [][(ToolsReturns /\ LastIsAI(messages)
        /\ \A i \in 1..Len(LastCalls(messages)) : Registered(LastCalls(messages)[i].name))
       => /\ AnswersInOrder(messages, ret'.messages, LastCalls(messages))
          /\ AnswersInOrder(WithoutIds(messages), WithoutIds(messages'),
                            LastCalls(messages))]_vars

\* two requests with different identifiers, both for registered tools, have
\* been answered
C7_Witness ==
  /\ pc = LLM_NODE
  /\ ret.kind = "partial"
  /\ Len(invoked) = 2
  /\ invoked[1].id # invoked[2].id
  /\ invoked[1].name # invoked[2].name
  /\ ~invoked[1].threw /\ ~invoked[2].threw
  /\ Len(messages) >= 3
  /\ Len(messages[Len(messages) - 2].tool_calls) = 2
  /\ messages[Len(messages) - 1].tool_call_id = invoked[1].id
  /\ messages[Len(messages)].tool_call_id = invoked[2].id

HasErrorMarker(text) == text # <<>> /\ Head(text) \in {"Error: Tool '", "Error: "}

\* C8: for every request of the last ai message that names a tool that is not
\* registered, whatever the registered set, the node appends a tool message
\* tagged with the name and the identifier of the request, whose content has
\* an error marker and the name of the missing tool, and the other requests
\* are processed too.
C8_MissingToolAnswered ==
  [][(ToolsReturns /\ LastIsAI(messages))
       => \A i \in 1..Len(LastCalls(messages)) :
            ~Registered(LastCalls(messages)[i].name) =>
              /\ Len(ret'.messages) = Len(messages) + Len(LastCalls(messages))
              /\ LET m == ret'.messages[Len(messages) + i]
                     c == LastCalls(messages)[i]
                 IN /\ m.role = "tool"
                    /\ m.tool_call_id = c.id
                    /\ m.name = c.name
                    /\ m.content.isText
                    /\ HasErrorMarker(m.content.text)
                    /\ Includes(m.content.text, c.name)]_vars

\* the step in which the invocation for the current request throws
ToolThrows ==
  /\ pc = TOOLS_NODE /\ tcIdx >= 1 /\ tcIdx' = tcIdx + 1
  /\ Len(invoked') = Len(invoked) + 1
  /\ invoked'[Len(invoked')].threw

\* the node never raises and no request is left out: it stays in its loop or
\* returns, and it returns an answer for every request
ToolsNeverRaise ==
  /\ pc = TOOLS_NODE => pc' \in {TOOLS_NODE, LLM_NODE}
  /\ (ToolsReturns /\ ret'.kind = "partial") =>
       Len(ret'.messages) = Len(messages) + Len(LastCalls(messages))

C10_NoCallsNoOp ==
  [][(pc = TOOLS_NODE /\ tcIdx = 0
        /\ (~LastIsAI(messages) \/ LastCalls(messages) = <<>>))
       => /\ pc' = LLM_NODE
          /\ ret'.kind = "state"
          /\ ret'.messages = messages
          /\ messages' = messages
          /\ result' = result
          /\ invoked' = invoked
          /\ invoked = <<>>]_vars

\* the node returned its state although tools are registered: the last
\* message is an ai message without requests
C10_Witness ==
  /\ pc = LLM_NODE
  /\ ret.kind = "state"
  /\ tools # <<>>
  /\ LastIsAI(messages)
  /\ invoked = <<>>

(***************************************************************************)
(* Properties of the parse node (SpecParse)                                *)
(***************************************************************************)
\* the node has run on the state
ParseRan == path = <<PARSE_NODE>>

\* equality of two values, the order of the members of an object set aside
SameValue(a, b) ==
  IF a.t = "obj" /\ b.t = "obj"
    THEN {a.o[i] : i \in 1..Len(a.o)} = {b.o[i] : i \in 1..Len(b.o)}
    ELSE a = b

Conforms(sch, v) == SchemaParse(sch, v).ok

LastText(msgs) ==
  LET c == msgs[Len(msgs)].content
  IN IF c.isText THEN c.text ELSE JSONStringify(c.val)

\* C11: for every value v that conforms to the response schema, when the last
\* message is an ai message whose text is JSON.stringify(v) inside a fenced
\* code block (with or without the json tag), the node sets result to a
\* value equal to v.
C11_RoundTrip ==
  ParseRan =>
    \A v \in ParseValues, tagged \in BOOLEAN :
      (/\ Conforms(schema, v)
       /\ LastIsAI(messages)
       /\ messages[Len(messages)].content = TextContent(Fenced(JSONStringify(v), tagged)))
      => /\ result.set
         /\ SameValue(result.val, v)

\* C12: on an ai message, the node fails with the decoding failure whenever
\* the extracted text is not valid JSON and with the validation failure
\* whenever the text decodes to a value that does not satisfy the schema;
\* the two failures differ, and result is not set in either case.
C12_MalformedOrSchemaViolation ==
  (ParseRan /\ LastIsAI(messages)) =>
    LET decoded == JSONParse(ProcessedOutput(LastText(messages)))
    IN /\ ~decoded.ok =>
            /\ pc = "failed"
            /\ runOutcome = Rejected(ErrorObj(MalformedMsg, calls))
            /\ ~result.set
       /\ (decoded.ok /\ ~Conforms(schema, decoded.val)) =>
            /\ pc = "failed"
            /\ runOutcome = Rejected(ErrorObj(SchemaViolationMsg, calls))
            /\ ~result.set
       /\ MalformedMsg # SchemaViolationMsg

\* the text decoded to a value that the schema rejects
C12_Witness ==
  /\ ParseRan
  /\ LastIsAI(messages)
  /\ JSONParse(ProcessedOutput(LastText(messages))).ok
  /\ ~Conforms(schema, JSONParse(ProcessedOutput(LastText(messages))).val)
  /\ runOutcome = Rejected(ErrorObj(SchemaViolationMsg, calls))
  /\ ~result.set

\* C13: whenever the last message is not an ai message, the empty sequence
\* included, the node fails with the type-mismatch failure and result is not
\* set, even if the content of that message is JSON the schema accepts.
C13_TypeMismatch ==
  (ParseRan /\ ~LastIsAI(messages)) =>
    /\ pc = "failed"
    /\ runOutcome = Rejected(ErrorObj(TypeMismatchMsg, calls))
    /\ ~result.set

\* the node failed on a human message whose content the schema accepts
C13_Witness ==
  /\ ParseRan
  /\ messages # <<>>
  /\ messages[Len(messages)].role = "human"
  /\ JSONParse(LastText(messages)).ok
  /\ Conforms(schema, JSONParse(LastText(messages)).val)
  /\ runOutcome = Rejected(ErrorObj(TypeMismatchMsg, calls))
  /\ ~result.set

(***************************************************************************)
(* Properties of the nodes inside a run (SpecRun)                          *)
(***************************************************************************)
LastNode == IF path = <<>> THEN "" ELSE path[Len(path)]

Added == SubSeq(messages', Len(messages) + 1, Len(messages'))

LlmStep == pc \in {LLM_WITH_TOOLS_NODE, LLM_NODE}

\* the step in which the tools node returns after it served the requests
ToolsServed ==
  ToolsReturns /\ tools # <<>> /\ LastCalls(messages) # <<>>

\* the ai message the model node returned carries the id of the i-th message
ReplacesInPlace(i) ==
  /\ ret'.messages[Len(ret'.messages)].id = messages[i].id
  /\ messages' = [messages EXCEPT ![i] = ret'.messages[Len(ret'.messages)]]

\* what the tools node and the parse node add to the sequence
ToolsAndParseAppend ==
  /\ pc = TOOLS_NODE =>
       /\ IsPrefix(messages, messages')
       /\ IF ToolsServed
            THEN /\ Len(Added) = Len(LastCalls(messages))
                 /\ \A i \in 1..Len(Added) : Added[i].role = "tool"
            ELSE Added = <<>>
  /\ pc = PARSE_NODE => messages' = messages

C16_ResultWrittenOnceByParser ==
  [][/\ path = <<>> => ~result.set
     /\ result' # result =>
          /\ pc = PARSE_NODE /\ pc' = END_NODE
          /\ ~result.set /\ result'.set
     /\ result'.set =>
          /\ Count(path', {PARSE_NODE}) = 1
          /\ Conforms(schema, result'.val)
          /\ SchemaParse(schema, result'.val).val = result'.val]_vars

\* the run returned the object that the parse node wrote
C16_Witness ==
  /\ pc = "done"
  /\ schema = ObjectSchema
  /\ result = [set |-> TRUE, val |-> JObj(<<[k |-> <<"name">>, v |-> JStr(<<"A">>)]>>)]
  /\ runOutcome = Resolved(result.val)

\* the model was invoked once in the step, on the sequence of the state
InvokedOnceOnState ==
  /\ Len(modelCalls') = Len(modelCalls) + 1
  /\ modelCalls'[Len(modelCalls')] = messages
  /\ SubSeq(modelCalls', 1, Len(modelCalls)) = modelCalls

LlmAnswered(r) ==
  \/ LLMNodeStep(LLM_WITH_TOOLS_NODE, "route", r)
  \/ LLMNodeStep(LLM_NODE, PARSE_NODE, r)

\* C18: when the client returns an AIMessage, the list the node returns is
\* the sequence followed by that very message, the requests it carries
\* included, and the message is in the sequence of the state afterwards.
C18_CanonicalPassedThrough ==
  [][\A r \in ModelResponses :
       (r.kind = "ai" /\ LlmAnswered(r)) =>
         /\ ret'.messages = Append(messages, r.msg)
         /\ \E i \in 1..Len(messages') :
              /\ [messages'[i] EXCEPT !.id = NoId] = [r.msg EXCEPT !.id = NoId]
              /\ messages'[i].tool_calls = r.msg.tool_calls]_vars

\* the answer of the tool-enabled node, an AIMessage with two requests, is
\* the last message and the last element of the list the node returned
C18_Witness ==
  /\ pc = "route"
  /\ LastIsAI(messages)
  /\ Len(LastCalls(messages)) = 2
  /\ ret.kind = "partial"
  /\ ret.messages[Len(ret.messages)].tool_calls = LastCalls(messages)

\* what the client can throw
ClientThrows == {r.err : r \in {x \in ModelResponses : x.kind = "throw"}}

\* C19: when the client throws, the model node throws that same value, as it
\* is, and no message is appended.
C19_ClientErrorPropagates ==
  [][(LlmStep /\ pc' = "failed") =>
       /\ runOutcome' \in {Rejected(e) : e \in ClientThrows}
       /\ messages' = messages
       /\ result' = result
       /\ ret' = NoReturn]_vars

\* the tool-free model node threw a value that is not an Error object
C19_Witness ==
  /\ pc = "failed"
  /\ LastNode = LLM_NODE
  /\ runOutcome.kind = "rejected"
  /\ ~runOutcome.err.isError
  /\ ~runOutcome.err.wrapped

GraphNodes == {LLM_WITH_TOOLS_NODE, TOOLS_NODE, LLM_NODE, PARSE_NODE}

\* C20: once a node throws, no other node runs, run rejects with the value
\* thrown, and run invokes the graph once: no step follows the failure or
\* the return of run, and START is passed once.
C20_FailureEndsTheAttempt ==
  [][/\ pc \notin {"failed", "done"}
     /\ (pc \in GraphNodes /\ pc' = "failed") =>
          /\ runOutcome'.kind = "rejected"
          /\ path' = Append(path, pc)
          /\ IF pc = PARSE_NODE
               THEN runOutcome'.err = ErrorObj(ParseOutcome(messages, schema).msg, calls)
               ELSE runOutcome'.err \in ClientThrows
     /\ Count(path', {START_NODE}) = 1
     /\ \A n \in GraphNodes : Count(path', {n}) <= 1]_vars

\* the second model invocation threw: the parse node never ran
C20_Witness ==
  /\ pc = "failed"
  /\ path = <<START_NODE, LLM_WITH_TOOLS_NODE, TOOLS_NODE, LLM_NODE>>
  /\ runOutcome.kind = "rejected"
  /\ runOutcome.err.msg = <<"LLM Error">>
  /\ ~result.set

(***************************************************************************)
(* Properties of the retry policy (SpecRetry)                              *)
(***************************************************************************)
\* the failure classes of an attempt, by the message of the error
FailureClasses ==
  {<<"LLM Error">>, MalformedMsg, SchemaViolationMsg, TypeMismatchMsg, NoResultMsg}

\* C21: whatever the class of the failure of an attempt, a further attempt
\* is made while fewer than N+1 attempts have been made: the wrapper does
\* not settle on a failure that is not the failure of attempt N+1.
C21_EveryFailureRetried ==
  \A i \in 1..Len(runLog) :
    (runLog[i].kind = "rejected" /\ i < maxRetries + 1) =>
      \/ Len(runLog) > i
      \/ rpc \in {"sleep", "loop", "running"}

\* four attempts failed, each with a failure of another class, the one that
\* produced no result first
C21_Witness ==
  /\ rpc = "rejected"
  /\ maxRetries = 3
  /\ Len(runLog) = 4
  /\ runLog[1].err.msg = NoResultMsg
  /\ runLog[2].err.msg = TypeMismatchMsg
  /\ runLog[3].err.msg = SchemaViolationMsg
  /\ runLog[4].err.msg = MalformedMsg

\* C22 as stated: after N+1 failed attempts runWithRetries rejects with the
\* very value the last attempt raised, whatever kind of value it is.
C22_LastValueRejectedAsIs ==
  (rpc = "rejected" /\ runLog # <<>>) =>
    settled = Rejected(runLog[Len(runLog)].err)

\* C22, amended: the rejection is the Error object the last attempt raised,
\* itself; a raised value that is not an Error object is replaced by a new
\* Error whose message is the string form of the value.
C22_LastErrorOrItsWrapping ==
  (rpc = "rejected" /\ runLog # <<>>) =>
    LET raised == runLog[Len(runLog)].err
    IN /\ settled.kind = "rejected"
       /\ settled.err.msg = raised.msg
       /\ settled.err.at = Len(runLog)
       /\ settled.err.isError
       /\ settled.err.wrapped = ~raised.isError

\* the last attempt raised a string after an attempt that raised an Error
C22_Witness ==
  /\ rpc = "rejected"
  /\ Len(runLog) >= 2
  /\ ~runLog[Len(runLog)].err.isError
  /\ runLog[1].err.isError
  /\ settled.err.wrapped

\* C23: with a retry budget of 0, also when the agent was constructed with
\* maxRetries 0, one attempt is made, nothing is waited for, and the value
\* or the error of that attempt is what the caller gets.
C23_ZeroBudgetSingleAttempt ==
  (options.maxRetries = Given(0) /\ RetrySettled) =>
    /\ maxRetries = 0
    /\ calls = 1
    /\ Len(runLog) = 1
    /\ waits = <<>>
    /\ runLog[1].kind = "resolved" => settled = runLog[1]
    /\ runLog[1].kind = "rejected" =>
         /\ settled.kind = "rejected"
         /\ settled.err.msg = runLog[1].err.msg
         /\ settled.err.at = 1

\* an agent constructed with maxRetries 0 whose only attempt failed
C23_Witness ==
  /\ options.maxRetries = Given(0)
  /\ rpc = "rejected"
  /\ calls = 1
  /\ runLog[1].kind = "rejected"

(***************************************************************************)
(* Properties of the invocations of the tools node (SpecTools)             *)
(***************************************************************************)
\* the step invokes a tool
Invokes == pc = TOOLS_NODE /\ invoked' # invoked

\* C25: the invocations of one pass are sequential and in the order of the
\* requests: a step starts one invocation at most, for the request the loop
\* is at, when every earlier request has its answer and every earlier
\* invocation was for an earlier request, and the invocation has returned or
\* raised, its answer recorded, before the loop moves on.
C25_InvocationsSequential ==
  [][Invokes =>
       /\ Len(invoked') = Len(invoked) + 1
       /\ SubSeq(invoked', 1, Len(invoked)) = invoked
       /\ invoked'[Len(invoked')].at = tcIdx
       /\ \A j \in 1..Len(invoked) : invoked[j].at < tcIdx
       /\ Len(updatedMessages) = Len(messages) + tcIdx - 1
       /\ Len(updatedMessages') = Len(messages) + tcIdx
       /\ tcIdx' = tcIdx + 1]_vars

\* two invocations were made, the first of which raised
C25_Witness ==
  /\ pc = TOOLS_NODE
  /\ Len(invoked) = 2
  /\ invoked[1].at = 1 /\ invoked[1].threw
  /\ invoked[2].at = 2
  /\ tcIdx = 3

\* C30: a tool is invoked for a request only if the name the request carries
\* is exactly the registered name of that tool; a request whose name is the
\* name of no registered tool causes no invocation.
C30_ExactNameLookup ==
  [][(pc = TOOLS_NODE /\ tcIdx >= 1 /\ tcIdx <= Len(LastCalls(messages))) =>
       LET request == LastCalls(messages)[tcIdx]
       IN IF \E i \in 1..Len(tools) : tools[i].name = request.name
            THEN Invokes => invoked'[Len(invoked')].name = request.name
            ELSE invoked' = invoked]_vars

(***************************************************************************)
(* A run with one round of tools (SpecRun)                                 *)
(***************************************************************************)
\* the run is over, by a return or by an exception
RunOver == pc \in {"done", "failed"}

\* the response of the first model invocation, as the second one received it
FirstResponse == modelCalls[2][Len(modelCalls[1]) + 1]

\* the model was invoked twice; it answered first with an ai message whose
\* requests all name registered tools and then with JSON text that satisfies
\* the schema
ToolRoundThenValidJson ==
  /\ RunOver
  /\ Len(modelCalls) = 2
  /\ Len(modelCalls[2]) > Len(modelCalls[1])
  /\ FirstResponse.role = "ai"
  /\ FirstResponse.tool_calls # <<>>
  /\ \A i \in 1..Len(FirstResponse.tool_calls) :
       Registered(FirstResponse.tool_calls[i].name)
  /\ Len(messages) > Len(modelCalls[2])
  /\ LastIsAI(messages)
  /\ JSONParse(LastText(messages)).ok
  /\ Conforms(schema, JSONParse(LastText(messages)).val)

\* C28: when the first response of the model is an ai message whose requests
\* name registered tools and the second is schema-valid JSON, run resolves
\* with the parse of the second response, every requested tool was invoked
\* once with the arguments of its request, and the second invocation of the
\* model received the answers of the tools.
C28_ToolRoundResolves ==
  ToolRoundThenValidJson =>
    LET cs == FirstResponse.tool_calls
        before == SubSeq(modelCalls[2], 1, Len(modelCalls[1]) + 1)
    IN /\ runOutcome =
            Resolved(SchemaParse(schema, JSONParse(LastText(messages)).val).val)
       /\ Len(invoked) = Len(cs)
       /\ \A i \in 1..Len(cs) :
            /\ invoked[i].at = i
            /\ invoked[i].name = cs[i].name
            /\ invoked[i].args = cs[i].args
       /\ AnswersInOrder(before, modelCalls[2], cs)

(***************************************************************************)
(* Properties of the prompt (SpecPrompt)                                   *)
(***************************************************************************)
\* run has formatted the messages of the initial state
Formatted == rpc = "loop" /\ attempt = 0 /\ calls = 0

RECURSIVE OccurInOrder(_, _, _)
OccurInOrder(parts, text, from) ==
  IF parts = <<>> THEN TRUE
  ELSE LET part == Head(parts)
       IN \E at \in from..(Len(text) - Len(part) + 1) :
            /\ SubSeq(text, at, at + Len(part) - 1) = part
            /\ OccurInOrder(Tail(parts), text, at + Len(part))

Occurs(tok, text) == \E i \in 1..Len(text) : text[i] = tok

ClientErrorMessages == {<<"LLM Error">>, <<"overloaded">>}

\* run was rejected, and every invocation of the model raised: every attempt
\* was rejected with what the client raised, and the model was only invoked
\* by the first node of an attempt, on the initial messages
EveryInvocationRaised ==
  /\ rpc = "rejected"
  /\ \A i \in 1..Len(runLog) :
       /\ runLog[i].kind = "rejected"
       /\ runLog[i].err.msg \in ClientErrorMessages
  /\ \A j \in 1..Len(modelCalls) : Len(modelCalls[j]) = Len(FormattedMessages)

\* C29: when the client raises at every invocation, an agent with maxRetries
\* N invokes the model N+1 times, once in each attempt and on the initial
\* messages, invokes no tool, and run rejects with the error the model
\* raised last (for a raised value that is no Error object, with the Error
\* made from it).
C29_FailingModel ==
  EveryInvocationRaised =>
    LET N == ConfiguredMaxRetries(options)
    IN /\ Len(modelCalls) = N + 1
       /\ Len(runLog) = N + 1
       /\ \A j \in 1..Len(modelCalls) : WithoutIds(modelCalls[j]) = FormattedMessages
       /\ invoked = <<>>
       /\ settled.kind = "rejected"
       /\ settled.err.msg = runLog[N + 1].err.msg
       /\ settled.err.at = N + 1
       /\ runLog[N + 1].err.isError => settled.err = runLog[N + 1].err

\* the model raised three times for an agent with maxRetries 2, an Error the
\* last time
C29_Witness ==
  /\ EveryInvocationRaised
  /\ options.maxRetries = Given(2)
  /\ Len(modelCalls) = 3
  /\ runLog[3].err = ErrorObj(<<"LLM Error">>, 3)
  /\ settled = Rejected(ErrorObj(<<"LLM Error">>, 3))
  /\ waits = <<10, 20>>

(***************************************************************************)
(* Properties of concurrent calls of run (SpecConcurrent)                  *)
(***************************************************************************)
\* the initial messages of call k
PromptOf(k) ==
  formatPrompt(ConfiguredInstructions(options), tools, schema,
               CallInputs[k].userInput, CallInputs[k].context)

\* the ids a step of call k gives to messages
IdsOf(k) == IF k = 1 THEN 1..(SecondIds - 1) ELSE SecondIds..(2 * SecondIds)

\* msgs holds the initial messages of call k, then messages to which no
\* step or a step of call k gave their id
OnlyMessagesOf(k, msgs) ==
  /\ Len(msgs) >= Len(PromptOf(k))
  /\ WithoutIds(SubSeq(msgs, 1, Len(PromptOf(k)))) = PromptOf(k)
  /\ \A i \in 1..Len(msgs) : msgs[i].id = NoId \/ msgs[i].id \in IdsOf(k)

\* c is a state that call k can be in when it runs alone: its arguments,
\* its messages, its counters and its outcome are those of its own steps
AsAlone(c, k) ==
  /\ c.userInput = CallInputs[k].userInput
  /\ c.context = CallInputs[k].context
  /\ IF c.rpc = "off" THEN c.messages = <<>> ELSE OnlyMessagesOf(k, c.messages)
  /\ c.tcIdx > 0 => OnlyMessagesOf(k, c.updatedMessages)
  /\ \A j \in 1..Len(c.modelCalls) : OnlyMessagesOf(k, c.modelCalls[j])
  /\ c.attempt = Len(c.runLog) - (IF c.rpc \in {"sleep", "resolved"} THEN 1 ELSE 0)
  /\ c.calls = Len(c.runLog) + (IF c.rpc = "running" THEN 1 ELSE 0)
  /\ \A i \in 1..Len(c.runLog) :
       c.runLog[i].kind = "rejected" => c.runLog[i].err.at = i
  /\ c.rpc = "resolved" =>
       /\ c.runLog[Len(c.runLog)].kind = "resolved"
       /\ c.settled = Resolved(c.runLog[Len(c.runLog)].val)
  /\ c.rpc = "rejected" =>
       /\ Len(c.runLog) = ConfiguredMaxRetries(options) + 1
       /\ c.settled = Rejected(AsError(c.runLog[Len(c.runLog)].err))
  /\ c.rpc \notin {"resolved", "rejected"} => c.settled = Pending

\* C24: under every interleaving of the steps of two calls of run, each
\* call, the one whose step comes next and the one that waits, is in a state
\* of its own: it has its own arguments, the messages it holds and the
\* messages it handed to the model are its own initial messages followed by
\* messages of its own steps, its attempt counter counts its own runs, the
\* errors it caught are those of its own runs, and its outcome is the one
\* its own runs give.
C24_CallsIndependent ==
  /\ AsAlone(CallState, active)
  /\ AsAlone(suspended, 3 - active)

\* both calls have settled after their steps were interleaved, the first
\* one rejected after two attempts and the second one resolved after a
\* failed attempt and a tool call
C24_Witness ==
  /\ suspended # NoCall
  /\ active = 2
  /\ rpc = "resolved" /\ attempt = 1 /\ Len(invoked) = 1
  /\ Len(messages) = Len(PromptOf(2)) + 3
  /\ suspended.rpc = "rejected" /\ suspended.attempt = 2
  /\ suspended.nextId > 1 /\ nextId > SecondIds

(***************************************************************************)
(* The content of the answers of the tools node (SpecTools)                *)
(***************************************************************************)
\* C31: when the invocation of a tool returns, the content of the tool
\* message the node appends is a string.
C31_ResultContentIsString ==
  [][(Invokes /\ ~invoked'[Len(invoked')].threw) =>
       updatedMessages'[Len(updatedMessages')].content.isText]_vars

(***************************************************************************)
(* The extraction of the parse node (SpecParse)                            *)
(***************************************************************************)
\* the text has a fenced code block: a fence and a later fence
HasBlock(text) ==
  \E i, j \in 1..Len(text) : i < j /\ text[i] = Fence /\ text[j] = Fence

\* the text between the first fence, with its json tag if any, and the next
\* fence, without the white space around it
Interior(text) ==
  LET open == CHOOSE i \in 1..Len(text) :
                text[i] = Fence /\ \A j \in 1..(i - 1) : text[j] # Fence
      close == CHOOSE i \in (open + 1)..Len(text) :
                 text[i] = Fence /\ \A j \in (open + 1)..(i - 1) : text[j] # Fence
      from == IF open + 1 < close /\ text[open + 1] = "json" THEN open + 2 ELSE open + 1
  IN Trim(SubSeq(text, from, close - 1))

\* the node ended as it ends when it decodes text and validates the value
DecodedFrom(text) ==
  LET decoded == JSONParse(text)
  IN IF ~decoded.ok
       THEN ~result.set /\ runOutcome.kind = "rejected" /\ runOutcome.err.msg = MalformedMsg
     ELSE IF ~Conforms(schema, decoded.val)
       THEN /\ ~result.set /\ runOutcome.kind = "rejected"
            /\ runOutcome.err.msg = SchemaViolationMsg
     ELSE result = [set |-> TRUE, val |-> SchemaParse(schema, decoded.val).val]

\* C33 as stated: the node decodes the interior of the first fenced block
\* whenever the text has a block, and the full text otherwise.
C33_FirstBlockInterior ==
  (ParseRan /\ LastIsAI(messages)) =>
    DecodedFrom(IF HasBlock(LastText(messages))
                  THEN Interior(LastText(messages))
                  ELSE LastText(messages))

\* C33: the node decodes the interior of the first fenced block when the
\* text has a block whose interior is not empty, whatever text stands before
\* the block, after it or in later blocks; it decodes the full text when
\* there is no block or the interior of the first block is empty.
C33_FirstNonEmptyInterior ==
  (ParseRan /\ LastIsAI(messages)) =>
    DecodedFrom(IF HasBlock(LastText(messages)) /\ Interior(LastText(messages)) # <<>>
                  THEN Interior(LastText(messages))
                  ELSE LastText(messages))

\* the text had text before the first block, text after it and a second
\* block, and the result is the value inside the first block
C33_Witness ==
  /\ ParseRan /\ LastIsAI(messages)
  /\ LastText(messages) # <<>>
  /\ Head(LastText(messages)) = "Either"
  /\ Cardinality({i \in 1..Len(LastText(messages)) : LastText(messages)[i] = Fence}) = 4
  /\ schema = NumberSchema
  /\ result = [set |-> TRUE, val |-> JNum(7)]

(***************************************************************************)
(* runWithRetries on every budget (SpecRetry)                              *)
(***************************************************************************)
\* C36: whatever maxRetries is, run was invoked at least once when
\* runWithRetries settles, and an error runWithRetries rejects with was
\* raised by one of its attempts.
C36_AttemptedAtLeastOnce ==
  RetrySettled =>
    /\ Len(runLog) >= 1
    /\ settled.kind = "rejected" =>
         \E i \in 1..Len(runLog) :
           /\ runLog[i].kind = "rejected"
           /\ settled.err.msg = runLog[i].err.msg
           /\ settled.err.at = runLog[i].err.at

(***************************************************************************)
(* The messages of the second model invocation (SpecRun)                   *)
(***************************************************************************)
\* C34: when the router sent the run to TOOLS, the messages handed to the
\* model invocation that follows end with the requesting ai message and then
\* one tool message for each of its requests, in the order of the requests
\* and with their identifiers.
C34_EveryRequestAnswered ==
  (Len(modelCalls) = 2 /\ Count(path, {TOOLS_NODE}) = 1) =>
    LET seen == modelCalls[2]
        at == Len(modelCalls[1]) + 1
    IN /\ Len(seen) >= at
       /\ seen[at].role = "ai"
       /\ Len(seen) = at + Len(seen[at].tool_calls)
       /\ \A i \in 1..Len(seen[at].tool_calls) :
            /\ seen[at + i].role = "tool"
            /\ seen[at + i].tool_call_id = seen[at].tool_calls[i].id

AnswerHeldId ==
  /\ ret.kind = "partial"
  /\ ret.messages # <<>>
  /\ modelCalls # <<>>
  /\ LET answer == ret.messages[Len(ret.messages)]
         given == modelCalls[Len(modelCalls)]
     IN /\ answer.id # NoId
        /\ \E i \in 1..Len(given) : given[i].id = answer.id

AddedTo(seen, n) == SubSeq(seen, n + 1, Len(seen))

\* C32: every attempt starts from the initial state built once by the
\* call: the graph's first node runs on the formatted messages with no
\* result, and what any model invocation receives is the formatted
\* messages followed by messages of its own attempt only (at most one
\* answer of the model, then tool messages)
C32_AttemptsStartAfresh ==
  LET initial == FormattedMessages
      n == Len(initial)
  IN  /\ pc = LLM_WITH_TOOLS_NODE =>
           /\ WithoutIds(messages) = initial
           /\ result = NoResult
      /\ \A j \in 1..Len(modelCalls) :
           LET seen == WithoutIds(modelCalls[j])
               added == AddedTo(seen, n)
           IN  /\ Len(seen) >= n
               /\ SubSeq(seen, 1, n) = initial
               /\ Cardinality({i \in 1..Len(added) : added[i].role = "ai"}) <= 1
               /\ \A i \in 2..Len(added) : added[i].role = "tool"

\* a second attempt's first invocation received the initial messages alone
\* after the first attempt's second invocation had received an answer and a
\* tool message, and the first attempt failed
C32_Witness ==
  /\ Len(runLog) >= 1 /\ runLog[1].kind = "rejected"
  /\ \E j, k \in 1..Len(modelCalls) :
       /\ j < k
       /\ \E i \in 1..Len(modelCalls[j]) : modelCalls[j][i].role = "tool"
       /\ WithoutIds(modelCalls[k]) = FormattedMessages


InForce(k) ==
  /\ lastSet[k].done
  /\ ~lastSet[k].removed
  /\ lastSet[k].ttl.given => now - lastSet[k].at <= lastSet[k].ttl.val

\* C38: get(key) returns the value of the last set of that key while that
\* set is in force and undefined in every other case, and an entry found
\* expired by get is no longer listed by keys
C38_GetReturnsLastSet ==
  got.op = "get" =>
    /\ IF InForce(got.key)
         THEN got.defined /\ got.val = lastSet[got.key].value
         ELSE ~got.defined
    /\ (lastSet[got.key].done /\ ~lastSet[got.key].removed /\ ~InForce(got.key))
         => join(got.key)[1] \notin keys

====
